---- MODULE Spec2Model ----
(***************************************************************************)
(* A model of the dess_monitor direct providers: the CRC16/MODBUS          *)
(* checksum, the Modbus-RTU read codec and its register map, the ANERN     *)
(* provider's read_snapshot, the signed battery current resolvers and the  *)
(* trapezoidal energy accumulator.                                         *)
(*                                                                         *)
(* Conventions.  A byte string is a sequence of naturals 0..255.  A text   *)
(* string that the code inspects character by character (a hex frame) is   *)
(* a sequence of one-character strings.  Python's None is the empty tuple  *)
(* and a present value v is the one-element tuple <<v>>.  A float that is  *)
(* the product of a 16-bit integer and a decimal scale is the record       *)
(* [n |-> integer, d |-> 1 / scale].                                       *)
(***************************************************************************)
EXTENDS Integers, Sequences, FiniteSets, TLC

VARIABLES
    crc_in,      \* the byte string handed to the checksum functions
    crc_out,     \* what append_crc, the validator and crc16 made of it
    pc,          \* where the Modbus exchange stands
    req,         \* the arguments of the read: slave_id, start_reg, reg_count
    request,     \* the outcome of building the request frame
    device,      \* what the device did to answer (its registers, its fault)
    wire,        \* the bytes the device put on the wire
    response,    \* the hex text the transport returned
    decoded,     \* the outcome of decode_read_response
    telemetry,   \* the outcome of RuntimeTelemetry.parse_from_block
    snapshot,    \* the outcome of AnejiModbusProvider.read_snapshot
    qpigs,       \* the decoded QPIGS fields given to the battery current resolvers
    batt,        \* what _battery_current and _battery_current_signed returned
    clock,       \* datetime.now(), in ticks
    sensor,      \* the fields of a MyEnergySensor
    soc,         \* the fields of a SocCalculatorMixin
    soc_call,    \* the last calculate_soc call: its arguments and its outcome
    soc_sensor,  \* the BatteryStateOfChargeSensor: its construction, its attributes
    hass,        \* Home Assistant: the number entities' states, the stored SOC
    poll,        \* one update of DirectCoordinator: the fetches, the outcome
    qp,          \* one QpigsProvider call: its exchanges, its outcome
    probed,      \* one probe call of a provider: its exchange, its outcome
    created,     \* one create_provider call: its arguments, its outcome
    pv,          \* the raw responses and the PV power the snapshots show
    ascii_call,  \* one decode_qpigs call: its text, its outcome
    build_call,  \* one call of a frame builder or of read_snapshot up to its send
    coord,       \* a DirectCoordinator: its construction, the calls of a fetch
    auth,        \* the credentials of a DirectCoordinator and one poll cycle's steps
    block_call,  \* one parse_from_block call: its arguments, its outcome
    feed,        \* the readings of the SOC sensor's update and the power it feeds
    uni          \* a snapshot's signed battery current and the two sensors' values

crc_vars == <<crc_in, crc_out>>
modbus_vars == <<pc, req, request, device, wire, response, decoded, telemetry, snapshot>>

battery_vars == <<qpigs, batt>>
energy_vars == <<clock, sensor, soc>>
soc_vars == <<soc_call>>
hass_vars == <<soc_sensor, hass>>
later_vars == <<poll, qp, probed, created, pv>>
final_vars == <<ascii_call, build_call, coord, auth, block_call, feed, uni>>
rest_vars == <<soc_vars, hass_vars, later_vars, final_vars>>
prior_vars == <<crc_vars, modbus_vars, battery_vars, energy_vars, soc_vars, hass_vars,
                later_vars>>

vars == <<crc_in, crc_out, pc, req, request, device, wire, response, decoded,
          telemetry, snapshot, qpigs, batt, clock, sensor, soc,
          soc_call, soc_sensor, hass, poll, qp, probed, created, pv,
          ascii_call, build_call, coord, auth, block_call, feed, uni>>

None == <<>>
Some(v) == <<v>>

\* The two ways a call ends: a returned value, a raised exception.
Ok(v) == [ok |-> TRUE, val |-> v]
Raise(type, msg, arg) == [ok |-> FALSE, type |-> type, msg |-> msg, arg |-> arg]

(***************************************************************************)
(* Bit operations on naturals, as Python's ^ and >> on non-negative ints.  *)
(***************************************************************************)
RECURSIVE XorBits(_, _)
XorBits(a, b) ==
    IF a = 0 THEN b
    ELSE IF b = 0 THEN a
    ELSE (((a % 2) + (b % 2)) % 2) + 2 * XorBits(a \div 2, b \div 2)

\* The exclusive or of two hexadecimal digits, tabulated once.
XorNibble == [a \in 0..15 |-> [b \in 0..15 |-> XorBits(a, b)]]

\* a ^ b for a, b < 2^16, digit by digit.
Xor(a, b) ==
    XorNibble[a % 16][b % 16]
    + 16 * XorNibble[(a \div 16) % 16][(b \div 16) % 16]
    + 256 * XorNibble[(a \div 256) % 16][(b \div 256) % 16]
    + 4096 * XorNibble[(a \div 4096) % 16][(b \div 4096) % 16]

\* for _ in range(8): crc = (crc >> 1) ^ 0xA001 if crc & 1 else crc >> 1
RECURSIVE CrcShift(_, _)
CrcShift(crc, k) ==
    IF crc < 0 \/ k = 0 THEN crc
    ELSE CrcShift(IF crc % 2 = 1 THEN Xor(crc \div 2, 40961) ELSE crc \div 2, k - 1)

\* crc ^= b, then the eight shifts.
CrcByte(crc, b) == CrcShift(Xor(crc, b), 8)

\* The loop "for b in data" of crc16_modbus over data[lo..hi], the bytes taken
\* in order: the first half of the range, then the second.  The test on the
\* running value (a natural) makes the first half finish before the second
\* starts, which keeps the evaluation shallow on a 139-byte frame.
RECURSIVE CrcLoop(_, _, _, _)
CrcLoop(crc, data, lo, hi) ==
    IF crc < 0 \/ lo > hi THEN crc
    ELSE IF lo = hi THEN CrcByte(crc, data[lo])
    ELSE LET mid == (lo + hi) \div 2
         IN  CrcLoop(CrcLoop(crc, data, lo, mid), data, mid + 1, hi)

crc16_modbus(data) == CrcLoop(65535, data, 1, Len(data)) % 65536

\* struct.pack('<H', crc)
PackLE16(x) == <<x % 256, x \div 256>>

\* struct.unpack('<H', b)[0]
UnpackLE16(b) == b[1] + 256 * b[2]

\* Mutant: the checksum appended high byte first.
append_crc_HighFirst(data_wo_crc) ==
    data_wo_crc \o <<crc16_modbus(data_wo_crc) \div 256, crc16_modbus(data_wo_crc) % 256>>

append_crc(data_wo_crc) == data_wo_crc \o PackLE16(crc16_modbus(data_wo_crc))

(***************************************************************************)
(* Hex text: to_hex on the request, bytes.fromhex on the response.         *)
(***************************************************************************)
HexDigits == <<"0", "1", "2", "3", "4", "5", "6", "7", "8", "9",
               "A", "B", "C", "D", "E", "F">>

HexValue ==
    [c \in {HexDigits[i] : i \in 1..16} |-> CHOOSE v \in 0..15 : HexDigits[v + 1] = c]
    @@ ("a" :> 10) @@ ("b" :> 11) @@ ("c" :> 12) @@ ("d" :> 13) @@ ("e" :> 14)
    @@ ("f" :> 15)

\* ' '.join(f'{b:02X}' for b in frame)
to_hex(frame) ==
    [k \in 1..(IF Len(frame) = 0 THEN 0 ELSE 3 * Len(frame) - 1) |->
        IF k % 3 = 1 THEN HexDigits[(frame[(k + 2) \div 3] \div 16) + 1]
        ELSE IF k % 3 = 2 THEN HexDigits[(frame[(k + 2) \div 3] % 16) + 1]
        ELSE " "]

\* bytes.fromhex(response_hex.replace(' ', ''))
FromHexNoSpaces(text) ==
    LET NotSpace(c) == c # " "
        digits == SelectSeq(text, NotSpace)
    IN  IF \E k \in 1..Len(digits) : digits[k] \notin DOMAIN HexValue
        THEN Raise("ValueError", "non-hexadecimal number found in fromhex()", None)
        ELSE IF Len(digits) % 2 = 1
        THEN Raise("ValueError", "non-hexadecimal number found in fromhex()", None)
        ELSE Ok([k \in 1..(Len(digits) \div 2) |->
                    16 * HexValue[digits[2 * k - 1]] + HexValue[digits[2 * k]]])

(***************************************************************************)
(* Frame builders.                                                         *)
(***************************************************************************)
\* struct.pack('>H', x)
PackBE16(x) == <<x \div 256, x % 256>>

build_read_holding(slave_id, start_reg, reg_count) ==
    IF ~(1 <= slave_id /\ slave_id <= 247)
    THEN Raise("ValueError", "slave_id must be 1..247", None)
    ELSE IF ~(0 <= start_reg /\ start_reg <= 65535)
    THEN Raise("ValueError", "start_reg must be 0..65535", None)
    ELSE IF ~(1 <= reg_count /\ reg_count <= 125)
    THEN Raise("ValueError", "reg_count must be 1..125", None)
    ELSE LET pdu == <<3>> \o PackBE16(start_reg) \o PackBE16(reg_count)
             adu_wo_crc == <<slave_id>> \o pdu
         IN  Ok(append_crc(adu_wo_crc))

(***************************************************************************)
(* Response validation and decoding.                                       *)
(***************************************************************************)
\* Mutant: the slave id and function code are looked at before the checksum.
ExpectReadResponse_HeaderFirst(slave_id, req_func, payload, expected_regs) ==
    IF Len(payload) < 5
    THEN Raise("ValueError", "response too short", None)
    ELSE IF payload[1] # slave_id
    THEN Raise("ValueError", "unexpected slave id", <<payload[1], slave_id>>)
    ELSE IF payload[2] # req_func
    THEN Raise("ValueError", "unexpected function code in response", <<payload[2]>>)
    ELSE
    LET calc_crc == crc16_modbus(SubSeq(payload, 1, Len(payload) - 2))
        recv_crc == UnpackLE16(SubSeq(payload, Len(payload) - 1, Len(payload)))
        byte_count == payload[3]
        data == SubSeq(payload, 4, Len(payload) - 2)
    IN
    IF recv_crc # calc_crc
    THEN Raise("ValueError", "CRC mismatch", <<recv_crc, calc_crc>>)
    ELSE IF byte_count # Len(data)
    THEN Raise("ValueError", "byte_count does not match data length", None)
    ELSE IF expected_regs # None /\ byte_count # expected_regs[1] * 2
    THEN Raise("ValueError", "unexpected register count in response",
               <<byte_count \div 2, expected_regs[1]>>)
    ELSE Ok(<<byte_count, data>>)

\* Mutant: only the low byte of the checksum is compared.
ExpectReadResponse_LowCrcByte(slave_id, req_func, payload, expected_regs) ==
    IF Len(payload) < 5
    THEN Raise("ValueError", "response too short", None)
    ELSE
    LET calc_crc == crc16_modbus(SubSeq(payload, 1, Len(payload) - 2))
        recv_crc == UnpackLE16(SubSeq(payload, Len(payload) - 1, Len(payload)))
        byte_count == payload[3]
        data == SubSeq(payload, 4, Len(payload) - 2)
    IN
    IF recv_crc % 256 # calc_crc % 256
    THEN Raise("ValueError", "CRC mismatch", <<recv_crc, calc_crc>>)
    ELSE IF payload[1] # slave_id
    THEN Raise("ValueError", "unexpected slave id", <<payload[1], slave_id>>)
    ELSE IF payload[2] # req_func
    THEN Raise("ValueError", "unexpected function code in response", <<payload[2]>>)
    ELSE IF byte_count # Len(data)
    THEN Raise("ValueError", "byte_count does not match data length", None)
    ELSE IF expected_regs # None /\ byte_count # expected_regs[1] * 2
    THEN Raise("ValueError", "unexpected register count in response",
               <<byte_count \div 2, expected_regs[1]>>)
    ELSE Ok(<<byte_count, data>>)

_expect_read_response(slave_id, req_func, payload, expected_regs) ==
    IF Len(payload) < 5
    THEN Raise("ValueError", "response too short", None)
    ELSE
    LET data_wo_crc == SubSeq(payload, 1, Len(payload) - 2)
        recv_crc_le == SubSeq(payload, Len(payload) - 1, Len(payload))
        calc_crc == crc16_modbus(data_wo_crc)
        recv_crc == UnpackLE16(recv_crc_le)
    IN
    IF recv_crc # calc_crc
    THEN Raise("ValueError", "CRC mismatch", <<recv_crc, calc_crc>>)
    ELSE
    LET sid == payload[1]
        func == payload[2]
    IN
    IF sid # slave_id
    THEN Raise("ValueError", "unexpected slave id", <<sid, slave_id>>)
    ELSE IF func # req_func
    THEN Raise("ValueError", "unexpected function code in response", <<func>>)
    ELSE
    LET byte_count == payload[3]
        data == SubSeq(payload, 4, Len(payload) - 2)
    IN
    IF byte_count # Len(data)
    THEN Raise("ValueError", "byte_count does not match data length", None)
    ELSE IF expected_regs # None /\ byte_count # expected_regs[1] * 2
    THEN Raise("ValueError", "unexpected register count in response",
               <<byte_count \div 2, expected_regs[1]>>)
    ELSE Ok(<<byte_count, data>>)

bytes_to_u16_list(data) ==
    IF Len(data) % 2 = 1
    THEN Raise("ValueError", "data length must be even", None)
    ELSE Ok([k \in 1..(Len(data) \div 2) |-> 256 * data[2 * k - 1] + data[2 * k]])

decode_read_response(slave_id, start_reg, reg_count, response_hex) ==
    LET payload == FromHexNoSpaces(response_hex)
    IN  IF ~payload.ok THEN payload
        ELSE LET checked == _expect_read_response(slave_id, 3, payload.val, Some(reg_count))
             IN  IF ~checked.ok THEN checked
                 ELSE bytes_to_u16_list(checked.val[2])

(***************************************************************************)
(* The register map: RuntimeTelemetry.parse_from_block.                    *)
(***************************************************************************)
\* struct.unpack('>h', struct.pack('>H', x))[0]
ToSigned16(x) == IF x >= 32768 THEN x - 65536 ELSE x

\* float(n) * scale, scale = 1 / d
Scaled(n, d) == [n |-> n, d |-> d]

\* Mutant: the first register is taken to sit one address after start_reg.
Block_OneOff(start_reg, regs) ==
    [a \in (start_reg + 1)..(start_reg + Len(regs)) |-> regs[a - start_reg]]

\* {start_reg + i: regs[i] for i in range(len(regs))}
Block(start_reg, regs) ==
    [a \in start_reg..(start_reg + Len(regs) - 1) |-> regs[a - start_reg + 1]]

get_int(block, addr, d) ==
    IF addr \in DOMAIN block THEN Some(Scaled(ToSigned16(block[addr]), d)) ELSE None

\* int(get_int(addr, 1.0)) if get_int(addr, 1.0) is not None else None
get_int_as_int(block, addr) ==
    IF get_int(block, addr, 1) # None THEN Some(get_int(block, addr, 1)[1].n) ELSE None

\* Mutant: a register the block does not cover reads as 0.
get_uint_ZeroDefault(block, addr) ==
    IF addr \in DOMAIN block THEN Some(block[addr]) ELSE Some(0)

get_uint(block, addr) ==
    IF addr \in DOMAIN block THEN Some(block[addr]) ELSE None

\* The characters str.strip() removes, among the ASCII codes.
Whitespace == {9, 10, 11, 12, 13, 28, 29, 30, 31, 32}

\* The characters of the literal '\\x00' : a backslash, x, 0, 0.
RStripChars == {92, 120, 48}

RECURSIVE RStrip(_, _)
RStrip(str, chars) ==
    IF Len(str) > 0 /\ str[Len(str)] \in chars
    THEN RStrip(SubSeq(str, 1, Len(str) - 1), chars)
    ELSE str

RECURSIVE LStrip(_, _)
LStrip(str, chars) ==
    IF Len(str) > 0 /\ str[1] \in chars
    THEN LStrip(SubSeq(str, 2, Len(str)), chars)
    ELSE str

\* raw.decode('ascii', errors='ignore')
DecodeAsciiIgnore(raw) ==
    LET IsAscii(b) == b < 128 IN SelectSeq(raw, IsAscii)

RECURSIVE JoinWords(_, _, _)
JoinWords(block, addr, words) ==
    IF words = 0 THEN <<>>
    ELSE PackBE16(block[addr]) \o JoinWords(block, addr + 1, words - 1)

\* The text is kept as its sequence of character codes.
get_ascii(block, addr, words) ==
    IF \A i \in 0..(words - 1) : (addr + i) \in DOMAIN block
    THEN LET raw == JoinWords(block, addr, words)
             rstripped == RStrip(DecodeAsciiIgnore(raw), RStripChars)
         IN  Some(LStrip(RStrip(rstripped, Whitespace), Whitespace))
    ELSE None

PowerFlow_from_raw(raw) ==
    LET bat_bits == (raw \div 16) % 4
    IN  [raw |-> raw,
         pv_connected |-> (raw % 4) = 1,
         mains_connected |-> ((raw \div 4) % 4) = 1,
         battery_state |-> IF bat_bits = 0 THEN "idle"
                           ELSE IF bat_bits = 1 THEN "charging"
                           ELSE IF bat_bits = 2 THEN "discharging"
                           ELSE "unknown",
         load_on |-> ((raw \div 64) % 4) = 1,
         mains_charging |-> ((raw \div 256) % 2) = 1,
         pv_charging |-> ((raw \div 512) % 2) = 1]

parse_from_block(start_reg, regs) ==
    LET block == Block(start_reg, regs)
        pf_raw == get_uint(block, 231)
    IN  [device_type |-> get_uint(block, 171),
         device_name |-> get_ascii(block, 172, 12),
         protocol_number |-> get_uint(block, 184),
         serial_number |-> get_ascii(block, 186, 12),
         work_mode |-> get_uint(block, 201),
         power_flow |-> IF pf_raw # None THEN Some(PowerFlow_from_raw(pf_raw[1])) ELSE None,
         mains_voltage_v |-> get_int(block, 202, 10),
         mains_freq_hz |-> get_int(block, 203, 100),
         mains_power_w |-> get_int_as_int(block, 204),
         inv_voltage_v |-> get_int(block, 205, 10),
         inv_current_a |-> get_int(block, 206, 10),
         inv_freq_hz |-> get_int(block, 207, 100),
         inv_power_w |-> get_int_as_int(block, 208),
         inv_charge_power_w |-> get_int_as_int(block, 209),
         inv_charge_current_a |-> get_int(block, 233, 10),
         out_voltage_v |-> get_int(block, 210, 10),
         out_current_a |-> get_int(block, 211, 10),
         out_freq_hz |-> get_int(block, 212, 100),
         out_active_power_w |-> get_int_as_int(block, 213),
         out_apparent_power_va |-> get_int_as_int(block, 214),
         load_percent |-> get_int_as_int(block, 225),
         bat_voltage_v |-> get_int(block, 215, 10),
         bat_current_a |-> get_int(block, 216, 10),
         bat_power_w |-> get_int_as_int(block, 217),
         soc_percent |-> get_uint(block, 229),
         pv_voltage_v |-> get_int(block, 219, 10),
         pv_current_a |-> get_int(block, 220, 10),
         pv_power_w |-> get_int_as_int(block, 223),
         pv_charge_power_w |-> get_int_as_int(block, 224),
         pv_charge_current_a |-> get_int(block, 234, 10)]

\* regs = decode_read_response(...); RuntimeTelemetry.parse_from_block(171, regs)
parse_runtime_171_237(slave_id, response_hex) ==
    LET regs == decode_read_response(slave_id, 171, 67, response_hex)
    IN  IF ~regs.ok THEN regs ELSE Ok(parse_from_block(171, regs.val))

(***************************************************************************)
(* The inputs of the Modbus exchange.                                      *)
(***************************************************************************)
MaxRegs == 2          \* the longest short read whose responses are enumerated
RuntimeStart == 171   \* the runtime block 171..237
RuntimeCount == 67

SlaveIds == {0, 1, 247, 248}
StartRegs == {RuntimeStart, 228, 65536}
RegCounts == (0..MaxRegs) \cup {RuntimeCount, 126}

RegValues == {0, 539, 65535}
RegSteps == {0, 1, 257, 32768}

\* n registers: base, base + step, base + 2 step, ... (16 bits each)
PatternRegs(base, step, n) == [i \in 1..n |-> (base + (i - 1) * step) % 65536]

RegLists(n) == {PatternRegs(base, step, n) : base \in RegValues, step \in RegSteps}

\* struct.pack('>' + 'H' * n, *regs)
RegsToBytes(regs) ==
    [k \in 1..(2 * Len(regs)) |-> PackBE16(regs[(k + 1) \div 2])[2 - (k % 2)]]

\* What a device answers to a read of Len(regs) registers.
ValidResponse(slave_id, regs) ==
    append_crc(<<slave_id, 3, 2 * Len(regs)>> \o RegsToBytes(regs))

ReplaceByte(frame, pos, byte) == [frame EXCEPT ![pos] = byte]

\* A frame with a chosen header and payload, its checksum right or wrong.
CraftedResponse(rsid, func, bc, data, crc_ok) ==
    LET good == append_crc(<<rsid, func, bc>> \o data)
    IN  IF crc_ok THEN good
        ELSE ReplaceByte(good, Len(good) - 1, (good[Len(good) - 1] + 1) % 256)

OtherSlave(slave_id) == IF slave_id = 1 THEN 2 ELSE 1

CrcIdle == crc_in = None /\ crc_out = None

BatteryIdle == qpigs = None /\ batt = None

EnergyIdle == clock = 0 /\ sensor = None /\ soc = None

SocIdle == soc_call = None

HassIdle == soc_sensor = None /\ hass = None

PollIdle == poll = None
QpIdle == qp = None
ProbeIdle == probed = None
CreateIdle == created = None
PvIdle == pv = None

LaterIdle == PollIdle /\ QpIdle /\ ProbeIdle /\ CreateIdle /\ PvIdle

AsciiIdle == ascii_call = None
BuildIdle == build_call = None
CoordIdle == coord = None
AuthIdle == auth = None
BlockIdle == block_call = None
FeedIdle == feed = None
UniIdle == uni = None

FinalIdle ==
    /\ AsciiIdle /\ BuildIdle /\ CoordIdle /\ AuthIdle /\ BlockIdle /\ FeedIdle
    /\ UniIdle

RestIdle == SocIdle /\ HassIdle /\ LaterIdle /\ FinalIdle

\* Everything but the later variables is as before any operation.
EarlierIdle ==
    /\ FinalIdle
    /\ CrcIdle
    /\ BatteryIdle
    /\ EnergyIdle
    /\ SocIdle
    /\ HassIdle
    /\ pc = "idle"
    /\ req = None
    /\ request = None
    /\ device = None
    /\ wire = <<>>
    /\ response = <<>>
    /\ decoded = None
    /\ telemetry = None
    /\ snapshot = None

earlier_vars == <<crc_vars, modbus_vars, battery_vars, energy_vars, soc_vars, hass_vars,
                  final_vars>>

ExchangeIdle ==
    /\ pc = "idle"
    /\ req = None
    /\ request = None
    /\ device = None
    /\ wire = <<>>
    /\ response = <<>>
    /\ decoded = None
    /\ telemetry = None
    /\ snapshot = None

\* Everything but the last variables is as before any operation.
PriorIdle ==
    /\ CrcIdle
    /\ BatteryIdle
    /\ EnergyIdle
    /\ SocIdle
    /\ HassIdle
    /\ LaterIdle
    /\ ExchangeIdle

ModbusIdle ==
    /\ BatteryIdle
    /\ EnergyIdle
    /\ RestIdle
    /\ pc = "idle"
    /\ req = None
    /\ request = None
    /\ device = None
    /\ wire = <<>>
    /\ response = <<>>
    /\ decoded = None
    /\ telemetry = None
    /\ snapshot = None

(***************************************************************************)
(* The codec on its own: a read request is built, the device answers, the  *)
(* answer is validated, decoded and laid over the register map.            *)
(***************************************************************************)
BuildRequest ==
    /\ pc = "idle"
    /\ \E slave_id \in SlaveIds, start_reg \in StartRegs, reg_count \in RegCounts :
          /\ req' = [slave_id |-> slave_id, start_reg |-> start_reg, reg_count |-> reg_count]
          /\ request' = build_read_holding(slave_id, start_reg, reg_count)
          /\ pc' = IF request'.ok THEN "sent" ELSE "failed"
    /\ UNCHANGED <<device, wire, response, decoded, telemetry, snapshot>>

\* The transport returns the bytes as hex text and the caller decodes them.
Receive(dev, bytes) ==
    /\ device' = dev
    /\ wire' = bytes
    /\ response' = to_hex(bytes)
    /\ decoded' = decode_read_response(req.slave_id, req.start_reg, req.reg_count, response')
    /\ telemetry' = IF decoded'.ok THEN Some(parse_from_block(req.start_reg, decoded'.val))
                    ELSE None
    /\ pc' = "received"
    /\ UNCHANGED <<req, request, snapshot>>

DeviceAnswers ==
    /\ pc = "sent"
    /\ \E regs \in RegLists(req.reg_count) :
          Receive([mode |-> "valid", regs |-> regs], ValidResponse(req.slave_id, regs))

DeviceAnswerCorrupted ==
    /\ pc = "sent"
    /\ req.reg_count <= MaxRegs
    /\ LET regs == PatternRegs(539, 1, req.reg_count)
           good == ValidResponse(req.slave_id, regs)
       IN  \E pos \in 1..Len(good), byte \in 0..255 :
              /\ byte # good[pos]
              /\ Receive([mode |-> "corrupt", regs |-> regs, pos |-> pos, byte |-> byte],
                         ReplaceByte(good, pos, byte))

DeviceAnswersOtherwise ==
    /\ pc = "sent"
    /\ \E rsid \in {req.slave_id, OtherSlave(req.slave_id)}, func \in {3, 4, 131, 144},
          m \in 0..(MaxRegs + 1), odd \in BOOLEAN, crc_ok \in BOOLEAN :
          LET data == RegsToBytes(PatternRegs(539, 1, m)) \o (IF odd THEN <<7>> ELSE <<>>)
          IN  \E bc \in {Len(data), 2 * req.reg_count, 2} :
                 Receive([mode |-> "crafted", rsid |-> rsid, func |-> func, bc |-> bc,
                          data |-> data, crc_ok |-> crc_ok],
                         CraftedResponse(rsid, func, bc, data, crc_ok))

DeviceAnswersShort ==
    /\ pc = "sent"
    /\ LET good == ValidResponse(req.slave_id, PatternRegs(539, 1, req.reg_count))
       IN  \E k \in 0..4 :
              Receive([mode |-> "short", k |-> k], SubSeq(good, 1, k))

(***************************************************************************)
(* The checksum functions on their own.                                    *)
(***************************************************************************)
CodecInit == ModbusIdle /\ CrcIdle

CodecNext ==
    \/ BuildRequest /\ UNCHANGED <<crc_vars, battery_vars, energy_vars, rest_vars>>
    \/ DeviceAnswers /\ UNCHANGED <<crc_vars, battery_vars, energy_vars, rest_vars>>
    \/ DeviceAnswerCorrupted /\ UNCHANGED <<crc_vars, battery_vars, energy_vars, rest_vars>>
    \/ DeviceAnswersOtherwise /\ UNCHANGED <<crc_vars, battery_vars, energy_vars, rest_vars>>
    \/ DeviceAnswersShort /\ UNCHANGED <<crc_vars, battery_vars, energy_vars, rest_vars>>

SpecCodec == CodecInit /\ [][CodecNext]_vars

(***************************************************************************)
(* AnejiModbusProvider: read_snapshot.                                     *)
(***************************************************************************)
\* str(n) for a natural n, as its sequence of decimal digits.
RECURSIVE DecimalText(_)
DecimalText(n) ==
    IF n < 10 THEN <<HexDigits[n + 1]>>
    ELSE DecimalText(n \div 10) \o <<HexDigits[(n % 10) + 1]>>

\* float(v) if v is not None else None
_fi(v) == IF v # None THEN Some(Scaled(v[1], 1)) ELSE None

\* m.get(mode, InverterOperatingMode.UNKNOWN)
_map_work_mode(mode) ==
    IF mode = Some(0) THEN "Standby"
    ELSE IF mode = Some(1) THEN "Line"
    ELSE IF mode = Some(2) THEN "Battery"
    ELSE IF mode = Some(3) THEN "PowerOn"
    ELSE IF mode = Some(4) THEN "Fault"
    ELSE "Unknown"

build_runtime_read_frames(slave_id) ==
    LET blocks == [runtime_171_237 |-> <<171, 67>>,
                   faults_warnings_100_109 |-> <<100, 10>>,
                   settings_300_339 |-> <<300, 40>>,
                   soc_currents_341_351 |-> <<341, 11>>,
                   remote_406_426 |-> <<406, 21>>,
                   version_626_644 |-> <<626, 19>>,
                   faultlog_700_729 |-> <<700, 30>>]
        built == [k \in DOMAIN blocks |->
                     build_read_holding(slave_id, blocks[k][1], blocks[k][2])]
    IN  IF \E k \in DOMAIN built : ~built[k].ok
        THEN built[CHOOSE k \in DOMAIN built : ~built[k].ok]
        ELSE Ok([k \in DOMAIN built |-> to_hex(built[k].val)])

\* The attributes of the telemetry object that read_snapshot reads, in the
\* order in which it reads them.
SnapshotReads ==
    <<"work_mode", "bat_current_a", "device_name", "serial_number",
      "protocol_number", "mains_voltage_v", "mains_freq_hz", "out_voltage_v",
      "out_freq_hz", "out_active_power_w", "out_apparent_power_va",
      "load_percent", "bat_voltage_v", "soc_percent", "temp_inverter_c",
      "pv_voltage_v", "pv_current_a", "pv_power_w", "mains_power_w">>

\* Reading an attribute an object does not have raises AttributeError.
FirstMissingAttr(obj, reads) ==
    LET missing == {i \in 1..Len(reads) : reads[i] \notin DOMAIN obj}
    IN  IF missing = {} THEN None
        ELSE Some(reads[CHOOSE i \in missing : \A j \in missing : i <= j])

\* CanonicalSnapshot(...), the time stamp ts aside.
BuildSnapshot(t) ==
    [model |-> t["device_name"],
     serial |-> t["serial_number"],
     fw |-> IF t["protocol_number"] # None
            THEN Some(DecimalText(t["protocol_number"][1])) ELSE None,
     grid_voltage_v |-> t["mains_voltage_v"],
     grid_freq_hz |-> t["mains_freq_hz"],
     ac_out_voltage_v |-> t["out_voltage_v"],
     ac_out_freq_hz |-> t["out_freq_hz"],
     out_active_power_w |-> _fi(t["out_active_power_w"]),
     out_apparent_power_va |-> _fi(t["out_apparent_power_va"]),
     load_percent |-> _fi(t["load_percent"]),
     battery_voltage_v |-> t["bat_voltage_v"],
     battery_current_a |-> t["bat_current_a"],
     battery_soc_percent |-> _fi(t["soc_percent"]),
     inverter_temp_c |-> t["temp_inverter_c"],
     pv_voltage_v |-> t["pv_voltage_v"],
     pv_current_a |-> t["pv_current_a"],
     pv_power_w |-> _fi(t["pv_power_w"]),
     operating_mode |-> _map_work_mode(t["work_mode"]),
     grid_input_power_w |-> _fi(t["mains_power_w"]),
     raw |-> [anern_runtime_171_237 |-> t]]

\* read_snapshot from the transport's answer on.
ReadSnapshotTail(slave_id, resp_hex) ==
    LET parsed == parse_runtime_171_237(slave_id, resp_hex)
    IN  IF ~parsed.ok THEN parsed
        ELSE LET missing == FirstMissingAttr(parsed.val, SnapshotReads)
             IN  IF missing # None
                 THEN Raise("AttributeError",
                            "'RuntimeTelemetry' object has no attribute", missing)
                 ELSE Ok(BuildSnapshot(parsed.val))

ProviderSlaveIds == {0, 1, 247}

\* AnejiModbusProvider(transport, slave_id)
ProviderInit ==
    /\ CrcIdle
    /\ RestIdle
    /\ BatteryIdle
    /\ EnergyIdle
    /\ pc = "idle"
    /\ \E slave_id \in ProviderSlaveIds :
          req = [slave_id |-> slave_id, start_reg |-> RuntimeStart,
                 reg_count |-> RuntimeCount]
    /\ request = None
    /\ device = None
    /\ wire = <<>>
    /\ response = <<>>
    /\ decoded = None
    /\ telemetry = None
    /\ snapshot = None

\* read_snapshot up to "await self._tx(...)".
ReadSnapshotSend ==
    /\ pc = "idle"
    /\ LET frames == build_runtime_read_frames(req.slave_id)
       IN  IF frames.ok
           THEN /\ request' = Ok(frames.val.runtime_171_237)
                /\ snapshot' = snapshot
                /\ pc' = "awaiting"
           ELSE /\ request' = frames
                /\ snapshot' = frames
                /\ pc' = "done"
    /\ UNCHANGED <<req, device, wire, response, decoded, telemetry>>

\* The transport returns; read_snapshot runs to its end.
ReadSnapshotResume(dev, bytes) ==
    /\ device' = dev
    /\ wire' = bytes
    /\ response' = to_hex(bytes)
    /\ decoded' = decode_read_response(req.slave_id, RuntimeStart, RuntimeCount, response')
    /\ telemetry' = IF decoded'.ok THEN Some(parse_from_block(RuntimeStart, decoded'.val))
                    ELSE None
    /\ snapshot' = ReadSnapshotTail(req.slave_id, response')
    /\ pc' = "done"
    /\ UNCHANGED <<req, request>>

SnapshotOfValidResponse ==
    /\ pc = "awaiting"
    /\ \E regs \in RegLists(RuntimeCount) :
          ReadSnapshotResume([mode |-> "valid", regs |-> regs],
                             ValidResponse(req.slave_id, regs))

SnapshotOfOtherResponse ==
    /\ pc = "awaiting"
    /\ \E rsid \in {req.slave_id, OtherSlave(req.slave_id)}, func \in {3, 131},
          m \in {0, MaxRegs, RuntimeCount}, crc_ok \in BOOLEAN :
          LET data == RegsToBytes(PatternRegs(539, 1, m))
          IN  \E bc \in {Len(data), 2} :
                 ReadSnapshotResume([mode |-> "crafted", rsid |-> rsid, func |-> func,
                                     bc |-> bc, data |-> data, crc_ok |-> crc_ok],
                                    CraftedResponse(rsid, func, bc, data, crc_ok))

\* The transport raises instead of returning: read_snapshot lets it through.
TransportFails ==
    /\ pc = "awaiting"
    /\ snapshot' = Raise("TransportError", "transport failed", None)
    /\ pc' = "done"
    /\ UNCHANGED <<req, request, device, wire, response, decoded, telemetry>>

ProviderNext ==
    \/ ReadSnapshotSend /\ UNCHANGED <<crc_vars, battery_vars, energy_vars, rest_vars>>
    \/ SnapshotOfValidResponse /\ UNCHANGED <<crc_vars, battery_vars, energy_vars, rest_vars>>
    \/ SnapshotOfOtherResponse /\ UNCHANGED <<crc_vars, battery_vars, energy_vars, rest_vars>>
    \/ TransportFails /\ UNCHANGED <<crc_vars, battery_vars, energy_vars, rest_vars>>

SpecProvider == ProviderInit /\ [][ProviderNext]_vars

(***************************************************************************)
(* debug_tty.py: the checksum of the ASCII side, and the checksum          *)
(* functions applied to byte strings on their own.                         *)
(***************************************************************************)
\* for _ in range(8): crc = (crc >> 1) ^ 0xA001 if crc & 1 else crc >> 1
RECURSIVE TtyShift(_, _)
TtyShift(crc, k) ==
    IF crc < 0 \/ k = 0 THEN crc
    ELSE TtyShift(IF crc % 2 = 1 THEN Xor(crc \div 2, 40961) ELSE crc \div 2, k - 1)

\* for b in data: crc ^= b; ...
RECURSIVE TtyLoop(_, _, _)
TtyLoop(crc, data, i) ==
    IF crc < 0 \/ i > Len(data) THEN crc
    ELSE TtyLoop(TtyShift(Xor(crc, data[i]), 8), data, i + 1)

\* Mutant: the two bytes in big-endian order.
crc16_BigEndian(data) ==
    LET crc == TtyLoop(65535, data, 1) IN <<crc \div 256, crc % 256>>

\* crc.to_bytes(2, byteorder='little')
crc16(data) ==
    LET crc == TtyLoop(65535, data, 1) IN <<crc % 256, (crc \div 256) % 256>>

MaxCrcLen == 3        \* the longest enumerated byte string

CrcBytes == {0, 1, 3, 49, 128, 255}

\* "123456789", whose CRC-16/MODBUS is the catalogued check value 0x4B37.
CheckString == <<49, 50, 51, 52, 53, 54, 55, 56, 57>>

CrcInputs ==
    UNION {[1..k -> CrcBytes] : k \in 0..MaxCrcLen} \cup {CheckString}

CrcInit ==
    /\ ModbusIdle
    /\ crc_in \in CrcInputs
    /\ crc_out = None

\* append_crc(b); the validator on the result; crc16(b).
ApplyChecksums ==
    /\ crc_out = None
    /\ LET framed == append_crc(crc_in)
       IN  crc_out' = [appended |-> framed,
                       validated |-> _expect_read_response(
                                         IF Len(framed) >= 1 THEN framed[1] ELSE 0, 3,
                                         framed, None),
                       tty |-> crc16(crc_in)]
    /\ UNCHANGED <<crc_in, modbus_vars, battery_vars, energy_vars, rest_vars>>

CrcNext == ApplyChecksums

SpecCrc == CrcInit /\ [][CrcNext]_vars

(***************************************************************************)
(* The signed battery current: qpigs_provider._battery_current and         *)
(* direct_coordinator._battery_current_signed.  A current is a whole       *)
(* number of tenths of an ampere and float arithmetic on it is exact       *)
(* decimal arithmetic; a text reading has at most one fractional digit.    *)
(***************************************************************************)
Num(v) == [kind |-> "num", v |-> v]
Text(chars) == [kind |-> "str", chars |-> chars]

Digits == {HexDigits[i] : i \in 1..10}

RECURSIVE DigitsValue(_)
DigitsValue(chars) ==
    IF chars = <<>> THEN 0
    ELSE 10 * DigitsValue(SubSeq(chars, 1, Len(chars) - 1)) + HexValue[chars[Len(chars)]]

\* float(text) for a text of digits with at most one point, in tenths; any
\* other text makes float() raise ValueError.
ParseFloat(chars) ==
    LET points == {i \in 1..Len(chars) : chars[i] = "."}
        dot == IF points = {} THEN Len(chars) + 1 ELSE CHOOSE i \in points : TRUE
        whole == SubSeq(chars, 1, dot - 1)
        frac == SubSeq(chars, dot + 1, Len(chars))
    IN  IF \/ \E i \in 1..Len(chars) : chars[i] \notin Digits \cup {"."}
           \/ Cardinality(points) > 1
           \/ Len(whole) + Len(frac) = 0
        THEN Raise("ValueError", "could not convert string to float", None)
        ELSE Ok(10 * DigitsValue(whole) + (IF frac = <<>> THEN 0 ELSE HexValue[frac[1]]))

\* try: return float(x) / except Exception: return None
_f(x) ==
    IF x = None THEN None
    ELSE IF x[1].kind = "num" THEN Some(x[1].v)
    ELSE LET parsed == ParseFloat(x[1].chars)
         IN  IF parsed.ok THEN Some(parsed.val) ELSE None

\* dict.get(key)
Get(dict, key) == IF key \in DOMAIN dict THEN dict[key] ELSE None

\* x or 0.0
OrZero(x) == IF x = None \/ x = Some(0) THEN 0 ELSE x[1]

\* Mutant: the inconsistent report gives the sum.
BatteryCurrent_Sum(q) ==
    LET ci == _f(Get(q, "battery_charging_current"))
        di == _f(Get(q, "battery_discharge_current"))
    IN  IF ci = None /\ di = None THEN None
        ELSE IF OrZero(ci) > 0 /\ OrZero(di) = 0 THEN Some(OrZero(ci))
        ELSE IF OrZero(di) > 0 /\ OrZero(ci) = 0 THEN Some(-OrZero(di))
        ELSE Some(OrZero(ci) + OrZero(di))

\* qpigs_provider._battery_current
_battery_current(q) ==
    LET ci == _f(Get(q, "battery_charging_current"))
        di == _f(Get(q, "battery_discharge_current"))
    IN  IF ci = None /\ di = None THEN None
        ELSE IF OrZero(ci) > 0 /\ OrZero(di) = 0 THEN Some(OrZero(ci))
        ELSE IF OrZero(di) > 0 /\ OrZero(ci) = 0 THEN Some(-OrZero(di))
        ELSE Some(OrZero(ci) - OrZero(di))

\* Mutant: no current at all is reported as no reading.
BatteryCurrentSigned_ZeroAbsent(q) ==
    LET ci == _f(Get(q, "battery_charging_current"))
        di == _f(Get(q, "battery_discharge_current"))
    IN  IF ci = None /\ di = None THEN None
        ELSE IF OrZero(ci) = 0 /\ OrZero(di) = 0 THEN None
        ELSE IF OrZero(ci) > 0 /\ OrZero(di) = 0 THEN Some(OrZero(ci))
        ELSE IF OrZero(di) > 0 /\ OrZero(ci) = 0 THEN Some(-OrZero(di))
        ELSE Some(OrZero(ci) - OrZero(di))

\* direct_coordinator._battery_current_signed
_battery_current_signed(q) ==
    LET ci == _f(Get(q, "battery_charging_current"))
        di == _f(Get(q, "battery_discharge_current"))
    IN  IF ci = None /\ di = None THEN None
        ELSE IF OrZero(ci) > 0 /\ OrZero(di) = 0 THEN Some(OrZero(ci))
        ELSE IF OrZero(di) > 0 /\ OrZero(ci) = 0 THEN Some(-OrZero(di))
        ELSE Some(OrZero(ci) - OrZero(di))

\* What a QPIGS field may hold: nothing, a number, a text.
CurrentTenths == {-10, 0, 10, 20, 32, 89}
CurrentTexts == {<<"0", "0", "8", ".", "9">>, <<"0", "0", "0">>, <<"3", ".", "2">>,
                 <<"N", "A", "K">>}
Readings ==
    {None} \cup {Some(Num(v)) : v \in CurrentTenths}
           \cup {Some(Text(t)) : t \in CurrentTexts}

\* The QPIGS dictionaries: each of the two keys missing or holding a reading.
QpigsDicts ==
    LET keys == {"battery_charging_current", "battery_discharge_current"}
    IN  UNION {[ks -> Readings] : ks \in SUBSET keys}

BatteryInit ==
    /\ CrcIdle
    /\ RestIdle
    /\ pc = "idle"
    /\ req = None
    /\ request = None
    /\ device = None
    /\ wire = <<>>
    /\ response = <<>>
    /\ decoded = None
    /\ telemetry = None
    /\ snapshot = None
    /\ EnergyIdle
    /\ qpigs \in QpigsDicts
    /\ batt = None

ResolveBatteryCurrent ==
    /\ batt = None
    /\ batt' = [provider |-> Some(_battery_current(qpigs)),
                coordinator |-> Some(_battery_current_signed(qpigs))]
    /\ UNCHANGED <<qpigs, crc_vars, modbus_vars, energy_vars, rest_vars>>

BatteryNext == ResolveBatteryCurrent

SpecBattery == BatteryInit /\ [][BatteryNext]_vars

(***************************************************************************)
(* The energy accumulators: MyEnergySensor and SocCalculatorMixin.  Time   *)
(* is counted in ticks, power in whole watts, and energy in units of       *)
(* 1 / EnergyUnitsPerWh watt-hours, so that the arithmetic is exact; the   *)
(* clock does not step back between two samples.                           *)
(***************************************************************************)
TicksPerSecond == 2
MaxSamples == 3

EnergyUnitsPerWh == 7200 * TicksPerSecond

\* MyEnergySensor.__init__; _attr_native_value is the class default.
MyEnergySensor_init(now) ==
    [native_value |-> None,
     _prev_value |-> None,
     _prev_value_timestamp |-> now,
     _is_restored_value |-> FALSE]

\* MyEnergySensor.async_added_to_hass; data is the last extra data: None, or a
\* dictionary that may hold 'native_value'.
async_added_to_hass(self, data) ==
    [self EXCEPT
        !.native_value =
            IF data # None
            THEN (IF "native_value" \in DOMAIN data[1]
                  THEN data[1]["native_value"] ELSE Some(0))
            ELSE Some(0),
        !._is_restored_value = TRUE]

\* MyEnergySensor.available
available(self, device_online, hub_online) ==
    device_online /\ hub_online /\ self._is_restored_value

\* int(now.timestamp() - prev.timestamp()): whole seconds, towards zero.
ElapsedSeconds(now, prev) == (now - prev) \div TicksPerSecond

\* Mutant: the trapezoid is taken off the accumulated value.
update_energy_value_Subtract(self, current_value, now) ==
    LET elapsed_seconds == ElapsedSeconds(now, self._prev_value_timestamp)
    IN  IF self._prev_value # None /\ self.native_value = None
        THEN [self |-> self,
              result |-> Raise("TypeError", "unsupported operand type(s) for +=", None)]
        ELSE [self |-> [self EXCEPT
                  !.native_value =
                      IF self._prev_value # None
                      THEN Some(self.native_value[1]
                                - elapsed_seconds * TicksPerSecond
                                  * (self._prev_value[1] + current_value))
                      ELSE self.native_value,
                  !._prev_value = Some(current_value),
                  !._prev_value_timestamp = now],
              result |-> Ok(None)]

\* MyEnergySensor.update_energy_value:
\*   native_value += (elapsed_seconds / 3600) * (prev + current) / 2
\* is elapsed_seconds * TicksPerSecond * (prev + current) energy units.
update_energy_value(self, current_value, now) ==
    LET elapsed_seconds == ElapsedSeconds(now, self._prev_value_timestamp)
    IN  IF self._prev_value # None /\ self.native_value = None
        THEN [self |-> self,
              result |-> Raise("TypeError", "unsupported operand type(s) for +=", None)]
        ELSE [self |-> [self EXCEPT
                  !.native_value =
                      IF self._prev_value # None
                      THEN Some(self.native_value[1]
                                + elapsed_seconds * TicksPerSecond
                                  * (self._prev_value[1] + current_value))
                      ELSE self.native_value,
                  !._prev_value = Some(current_value),
                  !._prev_value_timestamp = now],
              result |-> Ok(None)]

\* SocCalculatorMixin.__init__
SocCalculatorMixin_init ==
    [_accumulated_energy_wh |-> Some(0),
     _prev_power |-> 0,
     _prev_ts |-> None,
     _has_prev |-> FALSE]

\* SocCalculatorMixin._accumulate:
\*   hours = (now - prev_ts).total_seconds() / 3600
\*   accumulated += (prev_power + current_power) / 2 * hours
\* is (prev_power + current_power) * ticks energy units.
\* The accumulated energy is a number, or None once calculate_soc has stored
\* an unavailable capacity in it; None += float raises TypeError.
_accumulate(self, current_power, now) ==
    IF ~self._has_prev
    THEN [self |-> [self EXCEPT !._prev_ts = Some(now),
                                !._prev_power = current_power,
                                !._has_prev = TRUE],
          result |-> Ok(None)]
    ELSE IF self._accumulated_energy_wh = None
    THEN [self |-> self,
          result |-> Raise("TypeError", "unsupported operand type(s) for +=", None)]
    ELSE [self |-> [self EXCEPT
                       !._accumulated_energy_wh =
                           Some(self._accumulated_energy_wh[1]
                                + (self._prev_power + current_power)
                                  * (now - self._prev_ts[1])),
                       !._prev_power = current_power,
                       !._prev_ts = Some(now)],
          result |-> Ok(None)]

\* The power samples, in watts.
PowerSamples == {-100, 0, 100, 200}

\* The time between two samples: under a second, an hour, just over an hour.
ElapsedTicks == {1, 3600 * TicksPerSecond, 3600 * TicksPerSecond + 1}

\* What the recorder kept of the sensor: nothing, no value, a value.
StoredData ==
    {None, Some([native_value |-> None]),
     Some([native_value |-> Some(50 * EnergyUnitsPerWh)])}

EnergyInit ==
    /\ CrcIdle
    /\ RestIdle
    /\ BatteryIdle
    /\ pc = "idle"
    /\ req = None
    /\ request = None
    /\ device = None
    /\ wire = <<>>
    /\ response = <<>>
    /\ decoded = None
    /\ telemetry = None
    /\ snapshot = None
    /\ clock = 0
    /\ sensor = [obj |-> MyEnergySensor_init(0), fed |-> 0, result |-> None,
                 stored |-> None]
    /\ soc = [obj |-> SocCalculatorMixin_init, fed |-> 0]

\* Home Assistant adds the sensor: the last stored value is restored.
AddedToHass ==
    /\ ~sensor.obj._is_restored_value
    /\ \E data \in StoredData :
           sensor' = [sensor EXCEPT !.obj = async_added_to_hass(sensor.obj, data),
                                    !.stored = Some(data)]
    /\ UNCHANGED <<clock, soc>>

\* A coordinator update feeds the sensor one power sample.
UpdateEnergyValue ==
    /\ sensor.obj._is_restored_value
    /\ sensor.fed + soc.fed < MaxSamples
    /\ \E dt \in ElapsedTicks, power \in PowerSamples :
           LET call == update_energy_value(sensor.obj, power, clock + dt)
           IN  /\ clock' = clock + dt
               /\ sensor' = [obj |-> call.self, fed |-> sensor.fed + 1,
                             stored |-> sensor.stored,
                             result |-> Some(call.result)]
    /\ UNCHANGED soc

\* calculate_soc feeds the accumulator one power sample.
Accumulate ==
    /\ sensor.fed + soc.fed < MaxSamples
    /\ \E dt \in ElapsedTicks, power \in PowerSamples :
           /\ clock' = clock + dt
           /\ soc' = [obj |-> _accumulate(soc.obj, power, clock + dt).self,
                      fed |-> soc.fed + 1]
    /\ UNCHANGED sensor

EnergyNext ==
    \/ AddedToHass /\ UNCHANGED <<crc_vars, modbus_vars, battery_vars, rest_vars>>
    \/ UpdateEnergyValue /\ UNCHANGED <<crc_vars, modbus_vars, battery_vars, rest_vars>>
    \/ Accumulate /\ UNCHANGED <<crc_vars, modbus_vars, battery_vars, rest_vars>>

SpecEnergy == EnergyInit /\ [][EnergyNext]_vars

(***************************************************************************)
(* The SOC estimator: SocCalculatorMixin.calculate_soc.  Capacities are in *)
(* whole watt-hours, voltages in whole volts; an argument the caller could *)
(* not supply is None.                                                     *)
(***************************************************************************)
\* SocCalculatorMixin.reset_accumulator
reset_accumulator(self, capacity_wh, soc_percent, now) ==
    [self EXCEPT
        !._accumulated_energy_wh =
            Some((capacity_wh * EnergyUnitsPerWh * soc_percent) \div 100),
        !._prev_ts = Some(now),
        !._prev_power = 0,
        !._has_prev = TRUE]

\* current_voltage >= bulk_v or (current_voltage >= float_v and
\*                               0 < current_power <= 2 * bulk_v)
Recalibrates(bulk_v, float_v, current_power, current_voltage) ==
    \/ current_voltage >= bulk_v[1]
    \/ /\ current_voltage >= float_v[1]
       /\ 0 < current_power
       /\ current_power <= 2 * bulk_v[1]

\* a >= b raises TypeError when b is None; the float threshold is compared
\* only when the bulk comparison is false.
RecalibrationRaises(bulk_v, float_v, current_voltage) ==
    \/ bulk_v = None
    \/ current_voltage < bulk_v[1] /\ float_v = None

Min(a, b) == IF b < a THEN b ELSE a
Max(a, b) == IF b > a THEN b ELSE a

\* calculate_soc with one of its steps changed: "bulk only" recalibrates at the
\* bulk threshold alone, "no upper clamp" clamps from below only.
calculate_soc_Changed(self, capacity_wh, bulk_v, float_v, current_power, current_voltage, now, change) ==
    LET acc == _accumulate(self, current_power, now)
        cmp_error == Raise("TypeError", "'>=' not supported between instances", None)
        clamp_error == Raise("TypeError", "'<' not supported between instances", None)
        recalibrates ==
            IF change = "bulk only" THEN current_voltage >= bulk_v[1]
            ELSE Recalibrates(bulk_v, float_v, current_power, current_voltage)
    IN  IF ~acc.result.ok THEN acc
        ELSE IF RecalibrationRaises(bulk_v, float_v, current_voltage)
        THEN [self |-> acc.self, result |-> cmp_error]
        ELSE LET snapped ==
                     IF recalibrates
                     THEN [acc.self EXCEPT
                              !._accumulated_energy_wh =
                                  IF capacity_wh = None THEN None
                                  ELSE Some(capacity_wh[1] * EnergyUnitsPerWh)]
                     ELSE acc.self
             IN  IF snapped._accumulated_energy_wh = None \/ capacity_wh = None
                 THEN [self |-> snapped, result |-> clamp_error]
                 ELSE LET cap == capacity_wh[1] * EnergyUnitsPerWh
                          clamped ==
                              IF change = "no upper clamp"
                              THEN Max(snapped._accumulated_energy_wh[1], 0)
                              ELSE Min(Max(snapped._accumulated_energy_wh[1], 0), cap)
                      IN  [self |-> [snapped EXCEPT
                                        !._accumulated_energy_wh = Some(clamped)],
                           result |-> Ok(Scaled(clamped * 100, cap))]

\* Mutant: the float threshold does not recalibrate.
calculate_soc_BulkOnly(self, capacity_wh, bulk_v, float_v, current_power, current_voltage, now) ==
    calculate_soc_Changed(self, capacity_wh, bulk_v, float_v, current_power,
                          current_voltage, now, "bulk only")

\* Mutant: the accumulated energy is not clamped to the capacity.
calculate_soc_NoUpperClamp(self, capacity_wh, bulk_v, float_v, current_power, current_voltage, now) ==
    calculate_soc_Changed(self, capacity_wh, bulk_v, float_v, current_power,
                          current_voltage, now, "no upper clamp")

\* SocCalculatorMixin.calculate_soc; the percentage accumulated / capacity * 100
\* is returned as the fraction n / d.
calculate_soc(self, capacity_wh, bulk_v, float_v, current_power, current_voltage, now) ==
    LET acc == _accumulate(self, current_power, now)
        cmp_error == Raise("TypeError", "'>=' not supported between instances", None)
        clamp_error == Raise("TypeError", "'<' not supported between instances", None)
    IN  IF ~acc.result.ok THEN acc
        ELSE IF RecalibrationRaises(bulk_v, float_v, current_voltage)
        THEN [self |-> acc.self, result |-> cmp_error]
        ELSE LET snapped ==
                     IF Recalibrates(bulk_v, float_v, current_power, current_voltage)
                     THEN [acc.self EXCEPT
                              !._accumulated_energy_wh =
                                  IF capacity_wh = None THEN None
                                  ELSE Some(capacity_wh[1] * EnergyUnitsPerWh)]
                     ELSE acc.self
             IN  IF snapped._accumulated_energy_wh = None \/ capacity_wh = None
                 THEN [self |-> snapped, result |-> clamp_error]
                 ELSE LET cap == capacity_wh[1] * EnergyUnitsPerWh
                          clamped == Min(Max(snapped._accumulated_energy_wh[1], 0), cap)
                      IN  [self |-> [snapped EXCEPT
                                        !._accumulated_energy_wh = Some(clamped)],
                           result |-> Ok(Scaled(clamped * 100, cap))]

MaxSocCalls == 2

\* The capacity, in Wh, and the bulk and float thresholds, in V, of a call:
\* numbers, or None for all three when the caller has no value for them (the
\* caller reads the three from one attribute).
SocSettings ==
    {<<Some(c), Some(56), Some(f)>> : c \in {50, 100}, f \in {54, 56}}
        \cup {<<None, None, None>>}
Voltages == {52, 55, 57}
SocPowers == {-100, 0, 10, 200}

\* The time between two SOC updates: under a second, an hour.
SocElapsedTicks == {1, 3600 * TicksPerSecond}

SocInit ==
    /\ CrcIdle
    /\ FinalIdle
    /\ BatteryIdle
    /\ ExchangeIdle
    /\ HassIdle
    /\ LaterIdle
    /\ clock = 0
    /\ sensor = None
    /\ soc = [obj |-> SocCalculatorMixin_init, fed |-> 0]
    /\ soc_call = None

\* The explicit external reset: the accumulator starts from 50 % of 100 Wh.
ResetAccumulator ==
    /\ soc.fed = 0
    /\ ~soc.obj._has_prev
    /\ soc' = [soc EXCEPT !.obj = reset_accumulator(soc.obj, 100, 50, clock)]
    /\ UNCHANGED <<clock, sensor, soc_call>>

\* One SOC update: calculate_soc on a new sample.
CalculateSoc ==
    /\ soc.fed < MaxSocCalls
    /\ \E dt \in SocElapsedTicks, set \in SocSettings,
          power \in SocPowers, voltage \in Voltages :
           LET call == calculate_soc(soc.obj, set[1], set[2], set[3], power,
                                     voltage, clock + dt)
           IN  /\ clock' = clock + dt
               /\ soc' = [obj |-> call.self, fed |-> soc.fed + 1]
               /\ soc_call' = Some([capacity_wh |-> set[1], bulk_v |-> set[2],
                                    float_v |-> set[3], current_power |-> power,
                                    current_voltage |-> voltage,
                                    result |-> call.result])
    /\ UNCHANGED sensor

SocNext ==
    \/ ResetAccumulator /\ UNCHANGED <<crc_vars, modbus_vars, battery_vars, hass_vars, later_vars, final_vars>>
    \/ CalculateSoc /\ UNCHANGED <<crc_vars, modbus_vars, battery_vars, hass_vars, later_vars, final_vars>>

SpecSoc == SocInit /\ [][SocNext]_vars

(***************************************************************************)
(* BatteryStateOfChargeSensor and the two number entities it subscribes to. *)
(* An object is the record of the attributes set on it; an entity's state   *)
(* is a text, or None when the entity is gone; values are in tenths.        *)
(***************************************************************************)
full_charge_entity == "number.battery_fully_charge_voltage"
capacity_entity == "number.vsoc_battery_capacity"

\* setattr(self, name, value)
SetAttr(self, name, value) ==
    [a \in DOMAIN self \cup {name} |-> IF a = name THEN value ELSE self[a]]

\* EntityStateSubscriberMixin.__init__: one _entity_id and one _subscribed_attr
\* per object; async_track_state_change_event adds the entity to those whose
\* events reach self._handle_entity_change.
EntityStateSubscriberMixin_init(self, subscribed, entity_id, attr_name) ==
    [self |-> SetAttr(SetAttr(SetAttr(self, "_entity_id", entity_id),
                              "_subscribed_attr", attr_name),
                      attr_name, None),
     subscribed |-> subscribed \cup {entity_id}]

\* SocCalculatorMixin.__init__(self, **kwargs): the method takes no argument
\* but self.
SocCalculatorMixin_init_call(self, kwargs) ==
    IF kwargs # {}
    THEN [self |-> self,
          result |-> Raise("TypeError",
                           "__init__() got an unexpected keyword argument", kwargs)]
    ELSE [self |-> [a \in DOMAIN self \cup DOMAIN SocCalculatorMixin_init |->
                       IF a \in DOMAIN SocCalculatorMixin_init
                       THEN SocCalculatorMixin_init[a] ELSE self[a]],
          result |-> Ok(None)]

\* BatteryStateOfChargeSensor.__init__
BatteryStateOfChargeSensor_init(subscribed) ==
    LET typed == [_attr_native_value |-> None,
                  _attr_unique_id |-> "battery_state_of_charge_ess"]
        voltage == EntityStateSubscriberMixin_init(typed, subscribed,
                       full_charge_entity, "battery_full_charge_voltage")
        capacity == EntityStateSubscriberMixin_init(voltage.self, voltage.subscribed,
                        capacity_entity, "battery_capacity_wh")
        estimator == SocCalculatorMixin_init_call(capacity.self, {"initial_energy_wh"})
    IN  IF ~estimator.result.ok
        THEN [self |-> estimator.self, subscribed |-> capacity.subscribed,
              listening |-> FALSE, result |-> estimator.result]
        ELSE [self |-> SetAttr(estimator.self, "_restored", FALSE),
              subscribed |-> capacity.subscribed,
              listening |-> TRUE, result |-> Ok(None)]

\* BatteryStateOfChargeSensor._on_subscribed_value_update: with a native value
\* the update handler runs; on an object without the estimator's attributes it
\* ends in its except branch, which stores None.
_on_subscribed_value_update(self) ==
    IF self._attr_native_value # None /\ "_has_prev" \notin DOMAIN self
    THEN [self EXCEPT !._attr_native_value = None]
    ELSE self

\* float(state.state), None unless positive; None on any exception.
SubscribedValue(new_state) ==
    IF new_state = None THEN None
    ELSE LET parsed == ParseFloat(new_state[1])
         IN  IF parsed.ok /\ parsed.val > 0 THEN Some(parsed.val) ELSE None

\* EntityStateSubscriberMixin._handle_entity_change, for an event of entity_id
_handle_entity_change(self, entity_id, new_state) ==
    _on_subscribed_value_update(
        SetAttr(self, self._subscribed_attr, SubscribedValue(new_state)))

\* VoltageEntityMixin.get_bulk_charging_voltage / get_floating_charging_voltage
get_bulk_charging_voltage(self) == self[self._subscribed_attr]

\* The states a number entity takes.
EntityStates ==
    {None, Some(<<"5", "6", ".", "4">>), Some(<<"5", "0", "0", "0">>),
     Some(<<"0">>), Some(<<"u", "n", "a", "v", "a", "i", "l", "a", "b", "l", "e">>)}

\* The SOC, in tenths of a percent, the recorder kept before the restart.
StoredSoc == {None, Some(505)}

SocSensorInit ==
    /\ CrcIdle
    /\ FinalIdle
    /\ BatteryIdle
    /\ EnergyIdle
    /\ ExchangeIdle
    /\ SocIdle
    /\ LaterIdle
    /\ soc_sensor = None
    /\ \E stored \in StoredSoc :
           hass = [states |-> [e \in {full_charge_entity, capacity_entity} |-> None],
                   subscribed |-> {},
                   stored |-> stored,
                   event |-> None]

\* The platform is set up after the restart: the sensor is constructed.
ConstructSocSensor ==
    /\ soc_sensor = None
    /\ LET made == BatteryStateOfChargeSensor_init(hass.subscribed)
       IN  /\ soc_sensor' = [obj |-> made.self, listening |-> made.listening,
                             result |-> made.result]
           /\ hass' = [hass EXCEPT !.subscribed = made.subscribed, !.event = None]

\* A number entity changes state; the event reaches the subscribed object.
EntityStateChanges ==
    \E e \in {full_charge_entity, capacity_entity}, new_state \in EntityStates :
        /\ hass.states[e] # new_state
        /\ hass' = [hass EXCEPT !.states[e] = new_state, !.event = Some(e)]
        /\ IF e \in hass.subscribed
           THEN soc_sensor' = [soc_sensor EXCEPT
                                  !.obj = _handle_entity_change(@, e, new_state)]
           ELSE UNCHANGED soc_sensor

SocSensorNext ==
    \/ ConstructSocSensor
         /\ UNCHANGED <<crc_vars, modbus_vars, battery_vars, energy_vars, soc_vars, later_vars,
                      final_vars>>
    \/ EntityStateChanges
         /\ UNCHANGED <<crc_vars, modbus_vars, battery_vars, energy_vars, soc_vars, later_vars,
                      final_vars>>

SpecSocSensor == SocSensorInit /\ [][SocSensorNext]_vars

(***************************************************************************)
(* One update of DirectCoordinator: _async_update_data from the fan-out on. *)
(* Each device's fetch is a task of its own; asyncio.gather, called without *)
(* return_exceptions, hands the first exception of a task to its awaiter,   *)
(* and returns the list of results once every task has returned.            *)
(***************************************************************************)
MaxDevices == 3

\* self.devices: the product numbers of the active devices.
DeviceLists == SUBSET (1..MaxDevices)

\* What provider.read_for_device does for one device: it returns a payload or
\* raises.
ReadErrors == {"ValueError", "AuthInvalidateError", "TimeoutError"}

\* fetch(device) on a returned payload: (pn, payload)
fetch(dev, payload) == <<dev, payload>>

\* dict(await asyncio.gather(...)) once every fetch has returned
data_map(fetches) == [d \in DOMAIN fetches |-> fetches[d].val[2]]

\* The except clauses of _async_update_data: TimeoutError is raised again,
\* AuthInvalidateError ends in _create_auth and the method returns None, any
\* other exception propagates.
UpdateOutcomeOf(error) ==
    IF error = "AuthInvalidateError" THEN Ok(None)
    ELSE Raise(error, "", None)

\* A fetch raises: the first exception ends the gather and with it the update.
FetchRaised(p, d, error) ==
    [p EXCEPT !.fetches[d] = Some(Raise(error, "", None)),
              !.outcome = IF @ = None THEN Some(UpdateOutcomeOf(error)) ELSE @]

PollInit ==
    /\ EarlierIdle
    /\ QpIdle /\ ProbeIdle /\ CreateIdle /\ PvIdle
    /\ \E devices \in DeviceLists :
           poll = [fetches |-> [d \in devices |-> None], outcome |-> None]

\* The fetch of a device returns its entry.
FetchReturns ==
    \E d \in DOMAIN poll.fetches :
        /\ poll.fetches[d] = None
        /\ poll' = [poll EXCEPT !.fetches[d] = Some(Ok(fetch(d, <<"payload", d>>)))]

\* The fetch of a device raises.
FetchRaises ==
    \E d \in DOMAIN poll.fetches, error \in ReadErrors :
        /\ poll.fetches[d] = None
        /\ poll' = FetchRaised(poll, d, error)

\* Every fetch has returned: the update returns the batch.
UpdateReturns ==
    /\ poll.outcome = None
    /\ \A d \in DOMAIN poll.fetches :
           poll.fetches[d] # None /\ poll.fetches[d][1].ok
    /\ poll' = [poll EXCEPT !.outcome =
                   Some(Ok(Some(data_map([d \in DOMAIN poll.fetches |->
                                             poll.fetches[d][1]]))))]

\* Mutant: on the timeout the fetches still running are left running.
UpdateTimesOut_Retries ==
    /\ poll.outcome = None
    /\ \E d \in DOMAIN poll.fetches : poll.fetches[d] = None
    /\ poll' = [poll EXCEPT !.outcome =
                   Some(Raise("TimeoutError", "async_timeout.timeout", None))]

\* async_timeout.timeout(30) expires: the update task is cancelled at its
\* await, which cancels the gather and with it the fetches still running;
\* the TimeoutError of the context manager is raised again by the except
\* clause.
UpdateTimesOut ==
    /\ poll.outcome = None
    /\ \E d \in DOMAIN poll.fetches : poll.fetches[d] = None
    /\ poll' = [fetches |-> [d \in DOMAIN poll.fetches |->
                                IF poll.fetches[d] = None
                                THEN Some(Raise("CancelledError", "", None))
                                ELSE poll.fetches[d]],
                outcome |-> Some(Raise("TimeoutError", "async_timeout.timeout", None))]

PollNext ==
    \/ FetchReturns /\ UNCHANGED <<earlier_vars, qp, probed, created, pv>>
    \/ FetchRaises /\ UNCHANGED <<earlier_vars, qp, probed, created, pv>>
    \/ UpdateReturns /\ UNCHANGED <<earlier_vars, qp, probed, created, pv>>
    \/ UpdateTimesOut /\ UNCHANGED <<earlier_vars, qp, probed, created, pv>>

SpecPoll == PollInit /\ [][PollNext]_vars

(***************************************************************************)
(* QpigsProvider: read_snapshot and probe.  A decoded reply is a dictionary *)
(* of fields; the readings of the PV fields are whole volts, amperes and    *)
(* watts (in tenths), so that a product of two of them is exact.            *)
(***************************************************************************)
\* The commands of read_snapshot, in the order in which it sends them.
QpigsCommands == <<"QPIGS", "QPIRI", "QMOD", "QMN", "QVFW", "QPIGS2">>

\* qpigs_provider._mul: a * b if a is not None and b is not None else None
_mul(a, b) == IF a # None /\ b # None THEN Some((a[1] * b[1]) \div 10) ELSE None

\* qpigs_provider._first_non_none
_first_non_none(vals) ==
    LET present == {i \in 1..Len(vals) : vals[i] # None}
    IN  IF present = {} THEN None
        ELSE vals[CHOOSE i \in present : \A j \in present : i <= j]

\* direct_coordinator._first
_first(vals) ==
    LET present == {i \in 1..Len(vals) : vals[i] # None}
    IN  IF present = {} THEN None
        ELSE vals[CHOOSE i \in present : \A j \in present : i <= j]

\* pv_power_w of QpigsProvider.read_snapshot
QpigsPvPower(q, q2) ==
    _first_non_none(<<_f(Get(q, "pv_charging_power")),
                      _mul(_f(Get(q2, "pv_current")), _f(Get(q2, "pv_voltage")))>>)

\* pv_p of _snapshot_from_direct
DirectPvPower(q, q2) ==
    _first(<<_f(Get(q, "pv_charging_power")),
             IF Get(q2, "pv_voltage") # None /\ Get(q2, "pv_current") # None
             THEN Some((OrZero(_f(Get(q2, "pv_voltage")))
                        * OrZero(_f(Get(q2, "pv_current")))) \div 10)
             ELSE None>>)

\* The operating mode of the QMOD reply as read_snapshot maps it.
QpigsOperatingMode(qmod) ==
    LET code == Get(qmod, "operating_mode")
    IN  IF code \in {Some("PowerOn"), Some("Standby"), Some("Line"),
                     Some("Battery"), Some("Fault")}
        THEN code[1]
        ELSE "Unknown"

\* CanonicalSnapshot(...) of QpigsProvider.read_snapshot, the time stamp ts
\* aside.
QpigsSnapshot(raw, grid_in_w) ==
    LET q == raw.qpigs
        q2 == raw.qpigs2
    IN  [model |-> Get(raw.qmn, "Model"),
         serial |-> None,
         fw |-> Get(raw.qvfw, "Firmware Version"),
         grid_voltage_v |-> _f(Get(q, "grid_voltage")),
         grid_freq_hz |-> _f(Get(q, "grid_frequency")),
         ac_out_voltage_v |-> _f(Get(q, "ac_output_voltage")),
         ac_out_freq_hz |-> _f(Get(q, "ac_output_frequency")),
         out_active_power_w |-> _f(Get(q, "output_active_power")),
         out_apparent_power_va |-> _f(Get(q, "output_apparent_power")),
         load_percent |-> _f(Get(q, "load_percent")),
         battery_voltage_v |-> _f(Get(q, "battery_voltage")),
         battery_current_a |-> _battery_current(q),
         battery_soc_percent |-> _f(Get(q, "battery_capacity")),
         inverter_temp_c |-> _f(Get(q, "inverter_heat_sink_temperature")),
         pv_voltage_v |-> _first_non_none(<<_f(Get(q, "pv_input_voltage")),
                                            _f(Get(q2, "pv_voltage"))>>),
         pv_current_a |-> _first_non_none(<<_f(Get(q, "pv_input_current")),
                                            _f(Get(q2, "pv_current"))>>),
         pv_power_w |-> QpigsPvPower(q, q2),
         operating_mode |-> QpigsOperatingMode(raw.qmod),
         grid_input_power_w |-> grid_in_w,
         raw |-> raw]

\* The replies gathered so far, under the keys of the snapshot's raw field.
RawReplies(replies) ==
    [qpigs |-> replies[1].val, qpiri |-> replies[2].val, qmod |-> replies[3].val,
     qmn |-> replies[4].val, qvfw |-> replies[5].val, qpigs2 |-> replies[6].val]

\* Mutant: the QMN exchange is optional as well.
QpigsReadSnapshot_QmnOptional(q, outcome, grid_in_w) ==
    LET cmd == QpigsCommands[Len(q.exchanges) + 1]
        kept == IF ~outcome.ok /\ cmd \in {"QPIGS2", "QMN"} THEN Ok(<<>>) ELSE outcome
        replies == Append(q.replies, kept)
        exchanges == Append(q.exchanges, [cmd |-> cmd, outcome |-> outcome])
    IN  IF ~kept.ok
        THEN [exchanges |-> exchanges, replies |-> replies, result |-> Some(outcome)]
        ELSE IF Len(replies) < Len(QpigsCommands)
        THEN [exchanges |-> exchanges, replies |-> replies, result |-> None]
        ELSE [exchanges |-> exchanges, replies |-> replies,
              result |-> Some(Ok(QpigsSnapshot(RawReplies(replies), grid_in_w)))]

\* QpigsProvider.read_snapshot from the end of one exchange to its next await
\* or to its end: an exception of _send_and_parse propagates, except that of
\* the QPIGS2 exchange, which leaves qpigs2 = {}.
QpigsReadSnapshot(q, outcome, grid_in_w) ==
    LET cmd == QpigsCommands[Len(q.exchanges) + 1]
        kept == IF ~outcome.ok /\ cmd = "QPIGS2" THEN Ok(<<>>) ELSE outcome
        replies == Append(q.replies, kept)
        exchanges == Append(q.exchanges, [cmd |-> cmd, outcome |-> outcome])
    IN  IF ~kept.ok
        THEN [exchanges |-> exchanges, replies |-> replies, result |-> Some(outcome)]
        ELSE IF Len(replies) < Len(QpigsCommands)
        THEN [exchanges |-> exchanges, replies |-> replies, result |-> None]
        ELSE [exchanges |-> exchanges, replies |-> replies,
              result |-> Some(Ok(QpigsSnapshot(RawReplies(replies), grid_in_w)))]

\* What the device's reply to a command decodes to.
QpigsReplies(cmd) ==
    IF cmd = "QPIGS"
    THEN {[grid_voltage |-> Some(Text(<<"2", "3", "0", ".", "0">>)),
           battery_voltage |-> Some(Text(<<"5", "2", ".", "4">>)),
           battery_charging_current |-> Some(Text(<<"0", "1", "0">>)),
           battery_discharge_current |-> Some(Text(<<"0", "0", "0">>)),
           pv_input_current |-> Some(Text(<<"2">>)),
           pv_input_voltage |-> Some(Text(<<"1", "0", "0">>)),
           pv_charging_power |-> Some(Text(<<"0", "2", "0", "0">>))],
          [grid_voltage |-> Some(Text(<<"2", "3", "0", ".", "0">>)),
           battery_voltage |-> Some(Text(<<"5", "2", ".", "4">>)),
           battery_charging_current |-> Some(Text(<<"0", "0", "0">>)),
           battery_discharge_current |-> Some(Text(<<"0", "0", "5">>))]}
    ELSE IF cmd = "QPIRI" THEN {[rated_grid_voltage |-> Some(Text(<<"2", "3", "0", ".", "0">>))]}
    ELSE IF cmd = "QMOD" THEN {[operating_mode |-> Some("Line")],
                               [operating_mode |-> Some("ShutdownApproaching")]}
    ELSE IF cmd = "QMN" THEN {[Model |-> Some("VMII-NXPW5KW")], <<>>}
    ELSE IF cmd = "QVFW" THEN {[k \in {"Firmware Version"} |-> Some("00072.70")]}
    ELSE {[pv_current |-> Some(Text(<<"3">>)), pv_voltage |-> Some(Text(<<"9", "0">>))],
          [pv_current |-> Some(Text(<<"3">>))]}

\* How an exchange fails: the transport raises, or the reply does not decode.
ExchangeErrors == {"TimeoutError", "ValueError"}

\* float(resolve_grid_input_power(qpigs, qpiri)), None when it raises.
GridInputPowers == {None, Some(1000)}

\* QpigsProvider(transport), read_snapshot called.
QpigsInit ==
    /\ EarlierIdle
    /\ PollIdle /\ ProbeIdle /\ CreateIdle /\ PvIdle
    /\ qp = [exchanges |-> <<>>, replies |-> <<>>, result |-> None]

\* An exchange of _send_and_parse ends with a decoded reply.
ExchangeReturns ==
    /\ qp.result = None
    /\ \E reply \in QpigsReplies(QpigsCommands[Len(qp.exchanges) + 1]),
          grid_in_w \in GridInputPowers :
           /\ Len(qp.exchanges) + 1 < Len(QpigsCommands) => grid_in_w = None
           /\ qp' = QpigsReadSnapshot(qp, Ok(reply), grid_in_w)

\* An exchange of _send_and_parse raises.
ExchangeRaises ==
    /\ qp.result = None
    /\ \E error \in ExchangeErrors, grid_in_w \in GridInputPowers :
           /\ Len(qp.exchanges) + 1 < Len(QpigsCommands) => grid_in_w = None
           /\ qp' = QpigsReadSnapshot(qp, Raise(error, "", None), grid_in_w)

QpigsNext ==
    \/ ExchangeReturns /\ UNCHANGED <<earlier_vars, poll, probed, created, pv>>
    \/ ExchangeRaises /\ UNCHANGED <<earlier_vars, poll, probed, created, pv>>

SpecQpigs == QpigsInit /\ [][QpigsNext]_vars

(***************************************************************************)
(* probe of the two providers.  The exchange of a probe: the frame is      *)
(* built, the transport is awaited, and (QpigsProvider only) the reply is  *)
(* decoded.                                                                *)
(***************************************************************************)
\* AnejiModbusProvider.probe: frames the result of build_runtime_read_frames,
\* tx the outcome of "await self._tx(...)" (None when it was not reached).
AnejiModbusProvider_probe(frames, tx) ==
    IF ~frames.ok THEN Ok(FALSE)
    ELSE IF ~tx.ok THEN Ok(FALSE)
    ELSE Ok(TRUE)

\* QpigsProvider.probe: exchange the outcome of _send_and_parse("QMOD").
QpigsProvider_probe(exchange) ==
    IF ~exchange.ok THEN Ok(FALSE)
    ELSE Ok(DOMAIN exchange.val # {})

\* The two providers, the Modbus one with its slave id.
Providers ==
    {[name |-> "qpigs", sid |-> None]}
        \cup {[name |-> "aneji_modbus", sid |-> Some(s)] : s \in ProviderSlaveIds}

\* The frames a device may answer to the read of the runtime block.
ProbeResponses(slave_id) ==
    {ValidResponse(slave_id, regs) : regs \in RegLists(RuntimeCount)}
        \cup UNION {LET data == RegsToBytes(PatternRegs(539, 1, m))
                    IN  {CraftedResponse(rsid, func, bc, data, crc_ok) :
                            rsid \in {slave_id, OtherSlave(slave_id)},
                            func \in {3, 131}, bc \in {Len(data), 2},
                            crc_ok \in BOOLEAN}
                    : m \in {0, MaxRegs, RuntimeCount}}

\* What decode_direct_response makes of the reply to QMOD.
QmodReplies == QpigsReplies("QMOD") \cup {<<>>}

\* A provider whose probe has been called.
ProbeInit ==
    /\ EarlierIdle
    /\ PollIdle /\ QpIdle /\ CreateIdle /\ PvIdle
    /\ \E provider \in Providers :
           probed = [provider |-> provider, frame |-> None, tx |-> None,
                     result |-> None]

\* probe up to its await: the frame is built, or building it raises.
ProbeBuildsFrame ==
    /\ probed.frame = None
    /\ IF probed.provider.name = "aneji_modbus"
       THEN LET frames == build_runtime_read_frames(probed.provider.sid[1])
            IN  probed' = [probed EXCEPT
                              !.frame = Some(frames),
                              !.result = IF frames.ok THEN None
                                         ELSE Some(AnejiModbusProvider_probe(frames, None))]
       ELSE \E built \in {Ok("QMOD"), Raise("KeyError", "", None)} :
                probed' = [probed EXCEPT
                              !.frame = Some(built),
                              !.result = IF built.ok THEN None
                                         ELSE Some(QpigsProvider_probe(built))]

\* The transport raises or times out.
ProbeTransportRaises ==
    /\ probed.frame # None /\ probed.result = None
    /\ \E error \in {"TimeoutError", "ConnectionError"} :
           LET tx == Raise(error, "", None)
           IN  probed' = [probed EXCEPT
                             !.tx = Some(tx),
                             !.result = Some(IF probed.provider.name = "aneji_modbus"
                                             THEN AnejiModbusProvider_probe(probed.frame[1], tx)
                                             ELSE QpigsProvider_probe(tx))]

\* The transport returns the device's frame to AnejiModbusProvider.probe.
AnejiProbeAnswered ==
    /\ probed.provider.name = "aneji_modbus"
    /\ probed.frame # None /\ probed.result = None
    /\ \E bytes \in ProbeResponses(probed.provider.sid[1]) :
           LET tx == Ok(to_hex(bytes))
           IN  probed' = [probed EXCEPT
                             !.tx = Some(tx),
                             !.result = Some(AnejiModbusProvider_probe(probed.frame[1], tx))]

\* The transport returns to QpigsProvider._send_and_parse, which decodes the
\* reply or raises on it.
QpigsProbeAnswered ==
    /\ probed.provider.name = "qpigs"
    /\ probed.frame # None /\ probed.result = None
    /\ \E decoded_reply \in {Ok(reply) : reply \in QmodReplies}
                              \cup {Raise("ValueError", "", None)} :
           probed' = [probed EXCEPT
                         !.tx = Some(decoded_reply),
                         !.result = Some(QpigsProvider_probe(decoded_reply))]

ProbeNext ==
    \/ ProbeBuildsFrame /\ UNCHANGED <<earlier_vars, poll, qp, created, pv>>
    \/ ProbeTransportRaises /\ UNCHANGED <<earlier_vars, poll, qp, created, pv>>
    \/ AnejiProbeAnswered /\ UNCHANGED <<earlier_vars, poll, qp, created, pv>>
    \/ QpigsProbeAnswered /\ UNCHANGED <<earlier_vars, poll, qp, created, pv>>

SpecProbe == ProbeInit /\ [][ProbeNext]_vars

(***************************************************************************)
(* The provider registry: create_provider.  Keyword arguments are the      *)
(* sequence of their (name, value) pairs in the order of the call.         *)
(***************************************************************************)
\* REGISTRY
REGISTRY == [direct |-> "QpigsProvider", anern_modbus |-> "AnejiModbusProvider"]

\* The names of the keywords in kwargs.
KeywordNames(kwargs) == {kwargs[i][1] : i \in 1..Len(kwargs)}

\* The value passed for a keyword.
Keyword(kwargs, name) == kwargs[CHOOSE i \in 1..Len(kwargs) : kwargs[i][1] = name][2]

\* Binding **kwargs to the parameters of a constructor: the first keyword
\* that is no parameter, and then a required parameter without a value,
\* raise TypeError.
BindKeywords(class, kwargs, required, optional) ==
    LET unexpected == {i \in 1..Len(kwargs) : kwargs[i][1] \notin required \cup optional}
    IN  IF unexpected # {}
        THEN Raise("TypeError", class \o ".__init__() got an unexpected keyword argument",
                   Some(kwargs[CHOOSE i \in unexpected : \A j \in unexpected : i <= j][1]))
        ELSE IF \E name \in required : name \notin KeywordNames(kwargs)
        THEN Raise("TypeError", class \o ".__init__() missing 1 required positional argument",
                   Some(CHOOSE name \in required : name \notin KeywordNames(kwargs)))
        ELSE Ok(kwargs)

\* QpigsProvider(**kwargs)
QpigsProvider_init(kwargs) ==
    LET bound == BindKeywords("QpigsProvider", kwargs,
                              {"transport_send_hex_callable"}, {})
    IN  IF ~bound.ok THEN bound
        ELSE Ok([class |-> "QpigsProvider",
                 _tx |-> Keyword(kwargs, "transport_send_hex_callable")])

\* AnejiModbusProvider(**kwargs)
AnejiModbusProvider_init(kwargs) ==
    LET bound == BindKeywords("AnejiModbusProvider", kwargs,
                              {"transport_send_bytes_callable"}, {"slave_id"})
    IN  IF ~bound.ok THEN bound
        ELSE Ok([class |-> "AnejiModbusProvider",
                 _tx |-> Keyword(kwargs, "transport_send_bytes_callable"),
                 _sid |-> IF "slave_id" \in KeywordNames(kwargs)
                          THEN Keyword(kwargs, "slave_id") ELSE 1])

\* Calling the constructor a registry entry names.
Construct(factory, kwargs) ==
    IF factory = "QpigsProvider" THEN QpigsProvider_init(kwargs)
    ELSE AnejiModbusProvider_init(kwargs)

\* Mutant: an unknown kind gets the provider of "direct".
create_provider_Default(kind, kwargs) ==
    IF kind \notin DOMAIN REGISTRY
    THEN [constructed |-> <<REGISTRY["direct"]>>,
          result |-> Construct(REGISTRY["direct"], kwargs)]
    ELSE [constructed |-> <<REGISTRY[kind]>>,
          result |-> Construct(REGISTRY[kind], kwargs)]

\* create_provider(kind, **kwargs): constructed lists the constructors it
\* called.
create_provider(kind, kwargs) ==
    IF kind \notin DOMAIN REGISTRY
    THEN [constructed |-> <<>>,
          result |-> Raise("ValueError", "Unknown provider kind: ", Some(kind))]
    ELSE [constructed |-> <<REGISTRY[kind]>>,
          result |-> Construct(REGISTRY[kind], kwargs)]

\* The kinds asked for: the registered ones, the providers' own names, others.
ProviderKinds == {"direct", "anern_modbus", "aneji_modbus", "qpigs", "Direct", ""}

\* The keyword arguments of a call: at most two keywords, in either order.
KeywordValues ==
    [transport_send_hex_callable |-> "send_hex",
     transport_send_bytes_callable |-> "send_hex",
     send_hex_callable |-> "send_hex",
     slave_id |-> 7]

KeywordLists ==
    {<<>>} \cup {<<<<n, KeywordValues[n]>>>> : n \in DOMAIN KeywordValues}
           \cup UNION {{<<<<n, KeywordValues[n]>>, <<m, KeywordValues[m]>>>> :
                           m \in DOMAIN KeywordValues \ {n}} :
                        n \in DOMAIN KeywordValues}

\* A call of create_provider about to be made.
CreateInit ==
    /\ EarlierIdle
    /\ PollIdle /\ QpIdle /\ ProbeIdle /\ PvIdle
    /\ \E kind \in ProviderKinds, kwargs \in KeywordLists :
           created = [kind |-> kind, kwargs |-> kwargs, call |-> None]

CreateProvider ==
    /\ created.call = None
    /\ created' = [created EXCEPT !.call = Some(create_provider(created.kind, created.kwargs))]

CreateNext == CreateProvider /\ UNCHANGED <<earlier_vars, poll, qp, probed, pv>>

SpecCreate == CreateInit /\ [][CreateNext]_vars

(***************************************************************************)
(* The PV fields of a snapshot: QpigsProvider.read_snapshot and            *)
(* direct_coordinator._snapshot_from_direct on the same raw replies.       *)
(***************************************************************************)
\* raw.get(key, {}) or {}
RawGet(raw, key) == IF key \in DOMAIN raw THEN raw[key] ELSE <<>>

\* The keys of the QPIRI reply copied into the snapshot's "spec" block.
SpecKeys ==
    {"rated_grid_voltage", "rated_input_current", "rated_ac_output_voltage",
     "rated_output_frequency", "rated_output_current",
     "rated_output_apparent_power", "rated_output_active_power",
     "rated_battery_voltage", "low_battery_to_ac_bypass_voltage",
     "shut_down_battery_voltage", "bulk_charging_voltage",
     "float_charging_voltage", "battery_type", "max_utility_charging_current",
     "max_charging_current", "ac_input_voltage_range", "output_source_priority",
     "charger_source_priority", "parallel_max_number", "parallel_mode",
     "high_battery_voltage_to_battery_mode", "solar_work_condition_in_parallel",
     "solar_max_charging_power_auto_adjust", "rated_battery_capacity"}

\* direct_coordinator._snapshot_from_direct, the time stamp ts aside;
\* grid_in is float(resolve_grid_input_power(qpigs, qpiri)), None when that
\* raises.
_snapshot_from_direct(raw, grid_in) ==
    LET q == RawGet(raw, "qpigs")
        q2 == RawGet(raw, "qpigs2")
        qpiri == RawGet(raw, "qpiri")
        qmn == RawGet(raw, "qmn")
        qvfw == RawGet(raw, "qvfw")
    IN  [model |-> Get(qmn, "Model"),
         serial |-> None,
         fw |-> Get(qvfw, "Firmware Version"),
         grid_voltage_v |-> _f(Get(q, "grid_voltage")),
         grid_freq_hz |-> _f(Get(q, "grid_frequency")),
         ac_out_voltage_v |-> _f(Get(q, "ac_output_voltage")),
         ac_out_freq_hz |-> _f(Get(q, "ac_output_frequency")),
         out_active_power_w |-> _f(Get(q, "output_active_power")),
         out_apparent_power_va |-> _f(Get(q, "output_apparent_power")),
         load_percent |-> _f(Get(q, "load_percent")),
         battery_voltage_v |-> _f(Get(q, "battery_voltage")),
         battery_current_a |-> _battery_current_signed(q),
         battery_soc_percent |-> _f(Get(q, "battery_capacity")),
         inverter_temp_c |-> _f(Get(q, "inverter_heat_sink_temperature")),
         pv_voltage_v |-> _first(<<_f(Get(q, "pv_input_voltage")),
                                   _f(Get(q2, "pv_voltage"))>>),
         pv_current_a |-> _first(<<_f(Get(q, "pv_input_current")),
                                   _f(Get(q2, "pv_current"))>>),
         pv_power_w |-> DirectPvPower(q, q2),
         operating_mode |-> "Unknown",
         grid_input_power_w |-> grid_in,
         spec |-> [k \in SpecKeys |-> Get(qpiri, k)]]

\* What a PV field of a reply may hold: a whole number as text, zero, or a
\* text that is no number.
PvTexts == {<<"3">>, <<"0", "9", "0">>, <<"0">>, <<"N", "A", "K">>}

\* A reply with some of the given fields, each holding one of the texts.
PvDicts(keys, texts) == UNION {[ks -> {Some(Text(t)) : t \in texts}] : ks \in SUBSET keys}

\* The raw replies from which both snapshots are built.
PvInit ==
    /\ EarlierIdle
    /\ PollIdle /\ QpIdle /\ ProbeIdle /\ CreateIdle
    /\ \E power \in PvDicts({"pv_charging_power"}, {<<"0", "2", "0", "0">>, <<"N", "A", "K">>}),
          q \in PvDicts({"pv_input_voltage", "pv_input_current"}, PvTexts),
          q2 \in PvDicts({"pv_voltage", "pv_current"}, PvTexts) :
           pv = [raw |-> [qpigs |-> power @@ q, qpiri |-> <<>>, qmod |-> <<>>,
                          qmn |-> <<>>, qvfw |-> <<>>, qpigs2 |-> q2],
                 provider |-> None, direct |-> None]

\* QpigsProvider.read_snapshot builds its snapshot from the replies.
ProviderSnapshot ==
    /\ pv.provider = None
    /\ pv' = [pv EXCEPT !.provider = Some(QpigsSnapshot(pv.raw, None))]

\* _snapshot_from_direct builds its snapshot from the replies.
DirectSnapshot ==
    /\ pv.direct = None
    /\ pv' = [pv EXCEPT !.direct = Some(_snapshot_from_direct(pv.raw, None))]

PvNext ==
    \/ ProviderSnapshot /\ UNCHANGED <<earlier_vars, poll, qp, probed, created>>
    \/ DirectSnapshot /\ UNCHANGED <<earlier_vars, poll, qp, probed, created>>

SpecPv == PvInit /\ [][PvNext]_vars

(***************************************************************************)
(* debug_tty.py: decode_qpigs.  A text is the sequence of its characters;  *)
(* a decoded value is an int, a float (in tenths) or the token itself.     *)
(***************************************************************************)
IntValue(n) == [kind |-> "int", v |-> n]
FloatValue(tenths) == [kind |-> "float", v |-> tenths]

\* The characters str.split() and str.strip() take for white space.
WhitespaceChars == {" ", "\t", "\n", "\r"}

\* ascii_str.strip().split(): the maximal runs of characters that are not
\* white space; token is the run being read.
RECURSIVE SplitFrom(_, _, _)
SplitFrom(chars, i, token) ==
    IF i > Len(chars) THEN (IF token = <<>> THEN <<>> ELSE <<token>>)
    ELSE IF chars[i] \in WhitespaceChars
    THEN (IF token = <<>> THEN <<>> ELSE <<token>>) \o SplitFrom(chars, i + 1, <<>>)
    ELSE SplitFrom(chars, i + 1, Append(token, chars[i]))

\* The keys of decode_qpigs, in the order of the tokens.
QpigsFields ==
    <<"grid_voltage", "grid_frequency", "ac_output_voltage", "ac_output_frequency",
      "output_apparent_power", "output_active_power", "load_percent", "bus_voltage",
      "battery_voltage", "battery_charging_current", "battery_capacity",
      "inverter_heat_sink_temperature", "pv_input_current", "pv_input_voltage",
      "scc_battery_voltage", "battery_discharge_current", "device_status_bits_b7_b0",
      "battery_voltage_offset", "eeprom_version", "pv_charging_power",
      "device_status_bits_b10_b8", "reserved_a", "reserved_bb", "reserved_cccc">>

\* Mutant: a token spelled with a point is a float.
parse_value_BySpelling(v) ==
    LET f == ParseFloat(v)
    IN  IF ~f.ok THEN Text(v)
        ELSE IF \A i \in 1..Len(v) : v[i] # "." THEN IntValue(f.val \div 10)
        ELSE FloatValue(f.val)

\* decode_qpigs.parse_value
parse_value(v) ==
    LET f == ParseFloat(v)
    IN  IF ~f.ok THEN Text(v)
        ELSE IF f.val % 10 = 0 THEN IntValue(f.val \div 10)
        ELSE FloatValue(f.val)

\* dict(zip(keys, values))
DictZip(keys, values) ==
    LET n == Min(Len(keys), Len(values))
    IN  [k \in {keys[i] : i \in 1..n} |->
            values[CHOOSE i \in 1..n : keys[i] = k /\ \A j \in (i + 1)..n : keys[j] # k]]

decode_qpigs(ascii_str) ==
    LET values == SplitFrom(ascii_str, 1, <<>>)
        parsed_values == [i \in 1..Len(values) |-> parse_value(values[i])]
    IN  DictZip(QpigsFields, parsed_values)

MaxTokens == 3

\* The tokens of a response: numbers spelled with and without a point, with
\* and without a fractional part, and tokens that are no numbers.
QpigsTokens ==
    {<<"2", "3", "0", ".", "0">>, <<"5", "2", ".", "4">>, <<"0", "6", "2">>,
     <<"0">>, <<"(", "2", "3", "0", ".", "0">>, <<"N", "A", "K">>}

\* The response of the specification's example, token by token.
ExampleTokens ==
    <<<<"2", "3", "0", ".", "0">>, <<"5", "0", ".", "0">>, <<"2", "3", "0", ".", "0">>,
      <<"5", "0", ".", "0">>, <<"0", "8", "0", "0">>, <<"0", "6", "0", "0">>,
      <<"0", "3", "0">>, <<"3", "9", "2">>, <<"5", "2", ".", "4">>, <<"0", "1", "0">>,
      <<"0", "6", "2">>>>

TokenLists ==
    {ExampleTokens} \cup UNION {[1..n -> QpigsTokens] : n \in 0..MaxTokens}

\* The tokens written one after the other, sep between two of them.
RECURSIVE JoinTokens(_, _)
JoinTokens(tokens, sep) ==
    IF tokens = <<>> THEN <<>>
    ELSE IF Len(tokens) = 1 THEN tokens[1]
    ELSE tokens[1] \o sep \o JoinTokens(Tail(tokens), sep)

\* A response about to be decoded: its tokens, the white space between and
\* around them.
AsciiInit ==
    /\ PriorIdle
    /\ BuildIdle /\ CoordIdle /\ AuthIdle /\ BlockIdle /\ FeedIdle /\ UniIdle
    /\ \E tokens \in TokenLists, sep \in {<<" ">>, <<" ", " ">>},
          around \in {<<>>, <<"\r">>} :
           ascii_call = [tokens |-> tokens,
                         text |-> around \o JoinTokens(tokens, sep) \o around,
                         result |-> None]

DecodeQpigs ==
    /\ ascii_call.result = None
    /\ ascii_call' = [ascii_call EXCEPT !.result = Some(decode_qpigs(ascii_call.text))]

AsciiNext ==
    DecodeQpigs /\ UNCHANGED <<prior_vars, build_call, coord, auth, block_call, feed, uni>>

SpecAscii == AsciiInit /\ [][AsciiNext]_vars

(***************************************************************************)
(* The frame builders on their own, and read_snapshot of the ANERN         *)
(* provider up to its send.  Register values are 16-bit, as the builders    *)
(* require of their caller.                                                *)
(***************************************************************************)
\* Mutant: the length of the value list has no upper limit.
build_write_multiple_NoLimit(slave_id, start_reg, values) ==
    IF ~(1 <= slave_id /\ slave_id <= 247)
    THEN Raise("ValueError", "slave_id must be 1..247", None)
    ELSE IF ~(0 <= start_reg /\ start_reg <= 65535)
    THEN Raise("ValueError", "start_reg must be 0..65535", None)
    ELSE IF values = <<>>
    THEN Raise("ValueError", "values must be non-empty", None)
    ELSE LET reg_count == Len(values)
             byte_count == (reg_count * 2) % 256
             pdu == <<16>> \o PackBE16(start_reg) \o PackBE16(reg_count)
                        \o <<byte_count>> \o RegsToBytes(values)
             adu_wo_crc == <<slave_id>> \o pdu
         IN  Ok(append_crc(adu_wo_crc))

build_write_multiple(slave_id, start_reg, values) ==
    IF ~(1 <= slave_id /\ slave_id <= 247)
    THEN Raise("ValueError", "slave_id must be 1..247", None)
    ELSE IF ~(0 <= start_reg /\ start_reg <= 65535)
    THEN Raise("ValueError", "start_reg must be 0..65535", None)
    ELSE IF values = <<>>
    THEN Raise("ValueError", "values must be non-empty", None)
    ELSE IF Len(values) > 123
    THEN Raise("ValueError", "too many registers in one write (max ~123)", None)
    ELSE LET reg_count == Len(values)
             byte_count == reg_count * 2
             pdu == <<16>> \o PackBE16(start_reg) \o PackBE16(reg_count)
                        \o <<byte_count>> \o RegsToBytes(values)
             adu_wo_crc == <<slave_id>> \o pdu
         IN  Ok(append_crc(adu_wo_crc))

\* AnejiModbusProvider.read_snapshot up to "await self._tx(...)": sent lists
\* the frames handed to the transport, result is the exception raised before.
ReadSnapshotUpToSend(slave_id) ==
    LET frames == build_runtime_read_frames(slave_id)
    IN  IF frames.ok
        THEN [sent |-> <<frames.val.runtime_171_237>>, result |-> None]
        ELSE [sent |-> <<>>, result |-> Some(frames)]

\* The arguments of the calls: on, next to and beyond each limit.
BuildSlaveIds == {-1, 0, 1, 247, 248}
BuildStartRegs == {-1, 0, 65535, 65536}
BuildRegCounts == {-1, 0, 1, 125, 126}
BuildValueCounts == {0, 1, 123, 124}

BuildCalls ==
    {[op |-> "build_read_holding", slave_id |-> s, start_reg |-> a, reg_count |-> n] :
        s \in BuildSlaveIds, a \in BuildStartRegs, n \in BuildRegCounts}
    \cup {[op |-> "build_write_multiple", slave_id |-> s, start_reg |-> a,
           values |-> PatternRegs(65535, 1, n)] :
             s \in BuildSlaveIds, a \in BuildStartRegs, n \in BuildValueCounts}
    \cup {[op |-> "read_snapshot", slave_id |-> s] : s \in BuildSlaveIds}

BuildInit ==
    /\ PriorIdle
    /\ AsciiIdle /\ CoordIdle /\ AuthIdle /\ BlockIdle /\ FeedIdle /\ UniIdle
    /\ \E call \in BuildCalls : build_call = [call |-> call, done |-> None]

BuildReadHolding ==
    /\ build_call.done = None
    /\ build_call.call.op = "build_read_holding"
    /\ build_call' = [build_call EXCEPT !.done =
           Some([sent |-> <<>>,
                 result |-> Some(build_read_holding(build_call.call.slave_id,
                                                    build_call.call.start_reg,
                                                    build_call.call.reg_count))])]

BuildWriteMultiple ==
    /\ build_call.done = None
    /\ build_call.call.op = "build_write_multiple"
    /\ build_call' = [build_call EXCEPT !.done =
           Some([sent |-> <<>>,
                 result |-> Some(build_write_multiple(build_call.call.slave_id,
                                                      build_call.call.start_reg,
                                                      build_call.call.values))])]

ReadSnapshotBuilds ==
    /\ build_call.done = None
    /\ build_call.call.op = "read_snapshot"
    /\ build_call' = [build_call EXCEPT !.done =
                         Some(ReadSnapshotUpToSend(build_call.call.slave_id))]

BuildNext ==
    \/ BuildReadHolding /\ UNCHANGED <<prior_vars, ascii_call, coord, auth, block_call, feed, uni>>
    \/ BuildWriteMultiple /\ UNCHANGED <<prior_vars, ascii_call, coord, auth, block_call, feed, uni>>
    \/ ReadSnapshotBuilds /\ UNCHANGED <<prior_vars, ascii_call, coord, auth, block_call, feed, uni>>

SpecBuild == BuildInit /\ [][BuildNext]_vars

(***************************************************************************)
(* DirectCoordinator: its construction and the provider operation that a   *)
(* fetch of the poll cycle invokes.                                        *)
(***************************************************************************)
\* The operations a provider class defines.
ProviderMethods(class) ==
    IF class = "QpigsProvider" THEN {"probe", "read_snapshot", "_send_and_parse"}
    ELSE IF class = "AnejiModbusProvider" THEN {"probe", "read_snapshot"}
    ELSE {}

\* The provider operation fetch(device) awaits.
FetchOperation == "read_for_device"

\* config_entry.options.get("provider_kind", "direct")
ProviderKindOf(options) ==
    IF "provider_kind" \in DOMAIN options THEN options["provider_kind"] ELSE "direct"

\* DirectCoordinator.__init__ from the return of super().__init__ on.
DirectCoordinator_init(options, send_hex_callable) ==
    LET provider_kind == ProviderKindOf(options)
        made == create_provider(provider_kind,
                                <<<<"send_hex_callable", send_hex_callable>>>>)
    IN  IF ~made.result.ok THEN made.result
        ELSE Ok([send_hex_callable |-> send_hex_callable,
                 provider_kind |-> provider_kind,
                 provider |-> made.result.val])

\* self.provider.read_for_device(...) in fetch: an operation the provider's
\* class does not define raises AttributeError.
ProviderOperation(provider, operation) ==
    IF operation \in ProviderMethods(provider.class) THEN Ok(operation)
    ELSE Raise("AttributeError", "object has no attribute", Some(operation))

\* The options of a config entry, and the send function handed over.
CoordinatorOptions ==
    UNION {[ks -> ProviderKinds] :
              ks \in SUBSET {"provider_kind"}}
SendFunctions == {None, Some("send_hex"), Some("send_bytes")}
ProtocolFlags == {None, Some(TRUE), Some(FALSE)}

\* The providers of the registered classes, built with the class's own
\* keyword.
RegisteredProviders ==
    {QpigsProvider_init(<<<<"transport_send_hex_callable", send>>>>).val :
        send \in SendFunctions}
    \cup {AnejiModbusProvider_init(<<<<"transport_send_bytes_callable", send>>>>).val :
             send \in SendFunctions}

\* Either a coordinator about to be constructed from a config entry and a
\* send function, or a coordinator that holds a provider and whose poll
\* cycle is about to fetch a device.
CoordInit ==
    /\ PriorIdle
    /\ AsciiIdle /\ BuildIdle /\ AuthIdle /\ BlockIdle /\ FeedIdle /\ UniIdle
    /\ \/ \E options \in CoordinatorOptions, send \in SendFunctions,
            flag \in ProtocolFlags :
             coord = [options |-> options, send_hex_callable |-> send,
                      direct_request_protocol |-> flag, provider |-> None,
                      constructed |-> None, fetched |-> None]
       \/ \E options \in CoordinatorOptions, provider \in RegisteredProviders,
            flag \in ProtocolFlags :
             /\ ProviderKindOf(options) \in DOMAIN REGISTRY
             /\ provider.class = REGISTRY[ProviderKindOf(options)]
             /\ coord = [options |-> options, send_hex_callable |-> provider._tx,
                      direct_request_protocol |-> flag, provider |-> Some(provider),
                      constructed |-> None, fetched |-> None]

\* DirectCoordinator(hass, config_entry, send_hex_callable)
ConstructCoordinator ==
    /\ coord.provider = None
    /\ coord.constructed = None
    /\ LET made == DirectCoordinator_init(coord.options, coord.send_hex_callable)
       IN  coord' = [coord EXCEPT !.constructed = Some(made),
                                  !.provider = IF made.ok THEN Some(made.val.provider)
                                               ELSE None]

\* fetch(device) of a poll cycle invokes the provider; the cycle returns
\* before that for kind "direct" unless direct_request_protocol is True.
FetchInvokesProvider ==
    /\ coord.provider # None
    /\ ~(ProviderKindOf(coord.options) = "direct"
         /\ coord.direct_request_protocol # Some(TRUE))
    /\ coord.fetched = None
    /\ coord' = [coord EXCEPT !.fetched =
                    Some(ProviderOperation(coord.provider[1], FetchOperation))]

CoordNext ==
    \/ ConstructCoordinator /\ UNCHANGED <<prior_vars, ascii_call, build_call, auth, block_call, feed, uni>>
    \/ FetchInvokesProvider /\ UNCHANGED <<prior_vars, ascii_call, build_call, auth, block_call, feed, uni>>

SpecCoord == CoordInit /\ [][CoordNext]_vars

(***************************************************************************)
(* DirectCoordinator: the credentials over the poll cycles.  Times are in   *)
(* seconds.  self.auth is the dictionary auth_user returned; serial tells   *)
(* one such dictionary from the one before it.                              *)
(***************************************************************************)
MaxNow == 14400

\* The window of _check_auth
ReauthWindow == 3600

\* 'expire' of the dictionary auth_user returns
Expires == {1800, 7200}

\* The time between two poll cycles
Delays == {1800, 3600}

\* _create_auth: without a username or a password hash it returns at once;
\* otherwise self.auth and self.auth_issued_at are replaced.
_create_auth(a, expire) ==
    IF ~a.has_credentials THEN a
    ELSE [a EXCEPT !.auth = Some([expire |-> expire, serial |-> 1 - a.serial]),
                   !.serial = 1 - a.serial,
                   !.auth_issued_at = Some(a.now),
                   !.log = Append(@, "_create_auth")]

\* The condition of _check_auth
MustReauth(a) ==
    \/ a.auth_issued_at = None
    \/ a.now - (a.auth_issued_at[1] + a.auth[1].expire) <= ReauthWindow

\* _check_auth
_check_auth(a, expire) ==
    LET checked == [a EXCEPT !.log = Append(@, "_check_auth")]
    IN  IF MustReauth(a) THEN _create_auth(checked, expire) ELSE checked

\* The stored token has expired.
TokenExpired(a) ==
    a.auth_issued_at # None /\ a.now >= a.auth_issued_at[1] + a.auth[1].expire

\* The coordinator after _async_setup: kind "direct" has authenticated (if it
\* has credentials), another kind has not.
AuthInit ==
    /\ PriorIdle
    /\ AsciiIdle /\ BuildIdle /\ CoordIdle /\ BlockIdle /\ FeedIdle /\ UniIdle
    /\ \E has_credentials \in BOOLEAN, setup_auth \in BOOLEAN, expire \in Expires :
          auth = [now |-> 0, has_credentials |-> has_credentials,
                  auth |-> IF has_credentials /\ setup_auth
                           THEN Some([expire |-> expire, serial |-> 0]) ELSE None,
                  serial |-> 0,
                  auth_issued_at |-> IF has_credentials /\ setup_auth
                                     THEN Some(0) ELSE None,
                  pc |-> "idle", running |-> 0, expired |-> FALSE, log |-> <<>>]

\* Time passes between two poll cycles.
ClockAdvances ==
    \E dt \in Delays :
        /\ auth.pc = "idle"
        /\ auth.now + dt <= MaxNow
        /\ auth' = [auth EXCEPT !.now = @ + dt]

\* _async_update_data up to the return of _check_auth.
CycleChecksAuth ==
    \E expire \in Expires :
        /\ auth.pc = "idle"
        /\ auth.running = 0
        /\ auth' = [_check_auth([auth EXCEPT !.log = <<>>], expire)
                       EXCEPT !.pc = "checked", !.expired = TokenExpired(auth)]

\* self.devices = await self._get_active_devices(): without a token
\* self.auth['token'] raises TypeError, which ends the cycle.
CycleGetsDevices ==
    /\ auth.pc = "checked"
    /\ IF auth.auth = None
       THEN auth' = [auth EXCEPT !.pc = "idle", !.log = Append(@, "TypeError")]
       ELSE auth' = [auth EXCEPT !.pc = "listed", !.log = Append(@, "get_devices")]

\* asyncio.gather starts the fetch of every device.
CycleFansOut ==
    \E n \in 0..MaxDevices :
        /\ auth.pc = "listed"
        /\ auth' = [auth EXCEPT !.pc = "fanout", !.running = n,
                                !.log = @ \o [i \in 1..n |-> "fetch"]]

\* The fetch of a device returns.
DeviceFetchReturns ==
    /\ auth.running > 0
    /\ auth' = [auth EXCEPT !.running = @ - 1]

\* The fetch of a device raises AuthInvalidateError: the gather hands it to
\* the update, whose except clause awaits _create_auth; the other fetches
\* are not cancelled.
DeviceFetchInvalidatesAuth ==
    \E expire \in Expires :
        /\ auth.pc = "fanout"
        /\ auth.running > 0
        /\ auth' = [_create_auth([auth EXCEPT !.running = @ - 1], expire)
                       EXCEPT !.pc = "idle"]

\* Every fetch has returned: the update returns the batch.
CycleReturns ==
    /\ auth.pc = "fanout"
    /\ auth.running = 0
    /\ auth' = [auth EXCEPT !.pc = "idle"]

AuthNext ==
    \/ ClockAdvances /\ UNCHANGED <<prior_vars, ascii_call, build_call, coord, block_call, feed, uni>>
    \/ CycleChecksAuth /\ UNCHANGED <<prior_vars, ascii_call, build_call, coord, block_call, feed, uni>>
    \/ CycleGetsDevices /\ UNCHANGED <<prior_vars, ascii_call, build_call, coord, block_call, feed, uni>>
    \/ CycleFansOut /\ UNCHANGED <<prior_vars, ascii_call, build_call, coord, block_call, feed, uni>>
    \/ DeviceFetchReturns /\ UNCHANGED <<prior_vars, ascii_call, build_call, coord, block_call, feed, uni>>
    \/ DeviceFetchInvalidatesAuth /\ UNCHANGED <<prior_vars, ascii_call, build_call, coord, block_call, feed, uni>>
    \/ CycleReturns /\ UNCHANGED <<prior_vars, ascii_call, build_call, coord, block_call, feed, uni>>

SpecAuth == AuthInit /\ [][AuthNext]_vars

(***************************************************************************)
(* RuntimeTelemetry.parse_from_block over blocks that cover the runtime    *)
(* registers in part or in whole.                                          *)
(***************************************************************************)
\* The packed-ASCII fields: their first register and their length in
\* registers.
AsciiFields == [device_name |-> 172, serial_number |-> 186]
AsciiWords == 12

\* Where the blocks start and how many registers they hold.
BlockStarts == {RuntimeStart, 172, 186, 187, 201, 229}
BlockLengths == {0, 1, 11, AsciiWords, 26, 37, RuntimeCount}

\* The values of the registers outside the packed-ASCII fields.
FillValues == {0, 539, 65535}

\* The texts of a packed-ASCII field, as character codes: "SN10", "Max", "A\",
\* " AB", the empty text, and "SN" followed by 22 digits 0.
FieldTexts ==
    {<<83, 78, 49, 48>>, <<77, 97, 120>>, <<65, 92>>, <<32, 65, 66>>, <<>>,
     <<83, 78>> \o [i \in 1..22 |-> 48]}

\* The byte that fills a field up to its 24 bytes: NUL or a space.
PadBytes == {0, 32}

\* The 24 bytes of a field that holds text.
PaddedText(text, pad) ==
    [k \in 1..(2 * AsciiWords) |-> IF k <= Len(text) THEN text[k] ELSE pad]

\* The registers of a block: the packed-ASCII fields hold the text, high
\* byte first, the other registers hold fill.
BlockRegs(start_reg, n, text, pad, fill) ==
    [i \in 1..n |->
        LET a == start_reg + i - 1
            bytes == PaddedText(text, pad)
            InField(f) == a >= AsciiFields[f] /\ a < AsciiFields[f] + AsciiWords
        IN  IF \E f \in DOMAIN AsciiFields : InField(f)
            THEN LET f == CHOOSE g \in DOMAIN AsciiFields : InField(g)
                     w == a - AsciiFields[f]
                 IN  bytes[2 * w + 1] * 256 + bytes[2 * w + 2]
            ELSE fill]

BlockInit ==
    /\ PriorIdle
    /\ AsciiIdle /\ BuildIdle /\ CoordIdle /\ AuthIdle /\ FeedIdle /\ UniIdle
    /\ \E start_reg \in BlockStarts, n \in BlockLengths, text \in FieldTexts,
          pad \in PadBytes, fill \in FillValues :
          block_call = [start_reg |-> start_reg,
                        regs |-> BlockRegs(start_reg, n, text, pad, fill),
                        result |-> None]

\* RuntimeTelemetry.parse_from_block(start_reg, regs)
ParseFromBlock ==
    /\ block_call.result = None
    /\ block_call' = [block_call EXCEPT !.result =
                         Some(parse_from_block(block_call.start_reg, block_call.regs))]

BlockNext ==
    \/ ParseFromBlock /\ UNCHANGED <<prior_vars, ascii_call, build_call, coord, auth, feed, uni>>

SpecBlock == BlockInit /\ [][BlockNext]_vars





(***************************************************************************)
(* BatteryStateOfChargeSensor._handle_coordinator_update: the battery power *)
(* it hands to calculate_soc.  Voltages are in tenths of a volt, currents   *)
(* in tenths of an ampere, powers in hundredths of a watt.                  *)
(***************************************************************************)
\* What the resolvers hand over for the battery voltage and for the two
\* currents: a reading or None.
ResolvedVoltages == {None, Some(0), Some(480), Some(512), Some(545)}
ResolvedCurrents == {None, Some(0), Some(10), Some(32), Some(89)}

\* power = charge_i * voltage if charge_i > 0 else -discharge_i * voltage;
\* a reading of None makes the comparison or the product raise TypeError.
SocSensorPower(voltage, charge_i, discharge_i) ==
    IF charge_i = None THEN Raise("TypeError", "'>' not supported", None)
    ELSE IF charge_i[1] > 0
    THEN (IF voltage = None
          THEN Raise("TypeError", "unsupported operand type(s) for *", None)
          ELSE Ok(charge_i[1] * voltage[1]))
    ELSE IF discharge_i = None
    THEN Raise("TypeError", "bad operand type for unary -", None)
    ELSE IF voltage = None
    THEN Raise("TypeError", "unsupported operand type(s) for *", None)
    ELSE Ok(-discharge_i[1] * voltage[1])

\* The QPIGS dictionary that holds the two current readings.
CurrentsAsQpigs(charge_i, discharge_i) ==
    [k \in {"battery_charging_current", "battery_discharge_current"} |->
        LET reading == IF k = "battery_charging_current" THEN charge_i ELSE discharge_i
        IN  IF reading = None THEN None ELSE Some(Num(reading[1]))]

FeedInit ==
    /\ PriorIdle
    /\ AsciiIdle /\ BuildIdle /\ CoordIdle /\ AuthIdle /\ BlockIdle /\ UniIdle
    /\ \E voltage \in ResolvedVoltages, charge_i \in ResolvedCurrents,
          discharge_i \in ResolvedCurrents :
          feed = [voltage |-> voltage, charge_i |-> charge_i,
                  discharge_i |-> discharge_i, power |-> None, signed |-> None]

\* A coordinator update reaches the SOC sensor: it computes the power for
\* calculate_soc; the canonical resolver is given the same readings.
SocSensorComputesPower ==
    /\ feed.power = None
    /\ feed' = [feed EXCEPT
                   !.power = Some(SocSensorPower(feed.voltage, feed.charge_i,
                                                 feed.discharge_i)),
                   !.signed = Some(_battery_current(
                                  CurrentsAsQpigs(feed.charge_i, feed.discharge_i)))]

FeedNext ==
    \/ SocSensorComputesPower /\ UNCHANGED <<prior_vars, ascii_call, build_call, coord, auth, block_call, uni>>

SpecFeed == FeedInit /\ [][FeedNext]_vars

(***************************************************************************)
(* UniBatteryChargingCurrent and UniBatteryDischargeCurrent: the two        *)
(* unsigned currents published from the signed current of the snapshot.    *)
(* Currents are in tenths of an ampere.                                     *)
(***************************************************************************)
MaxCurrentTenths == 15

\* self.data.get("snapshot", {}).get("battery_current_a")
SnapshotBatteryCurrent(data) ==
    LET snap == IF "snapshot" \in DOMAIN data THEN data["snapshot"] ELSE <<>>
    IN  Get(snap, "battery_current_a")

\* UniBatteryChargingCurrent._handle_coordinator_update: the native value
UniBatteryChargingCurrent_update(data) ==
    LET f == SnapshotBatteryCurrent(data)
    IN  IF f # None /\ f[1] > 0 THEN f
        ELSE IF f # None THEN Some(0) ELSE None

\* Mutant: the discharge current keeps the sign of the snapshot's value.
UniBatteryDischargeCurrent_update_Signed(data) ==
    LET f == SnapshotBatteryCurrent(data)
    IN  IF f # None /\ f[1] < 0 THEN f
        ELSE IF f # None THEN Some(0) ELSE None

\* UniBatteryDischargeCurrent._handle_coordinator_update: the native value
UniBatteryDischargeCurrent_update(data) ==
    LET f == SnapshotBatteryCurrent(data)
    IN  IF f # None /\ f[1] < 0 THEN Some(-f[1])
        ELSE IF f # None THEN Some(0) ELSE None

\* The data of a device: no snapshot, a snapshot without the current, and a
\* snapshot whose signed current is None or a number.
DeviceData ==
    {<<>>, [snapshot |-> <<>>]}
    \cup {[snapshot |-> [battery_current_a |-> s]] :
             s \in {None} \cup {Some(v) : v \in (-MaxCurrentTenths)..MaxCurrentTenths}}

UniInit ==
    /\ PriorIdle
    /\ AsciiIdle /\ BuildIdle /\ CoordIdle /\ AuthIdle /\ BlockIdle /\ FeedIdle
    /\ \E data \in DeviceData :
          uni = [data |-> data, charging |-> None, discharge |-> None]

\* The coordinator update reaches the charging-current sensor.
ChargingSensorUpdates ==
    /\ uni.charging = None
    /\ uni' = [uni EXCEPT !.charging = Some(UniBatteryChargingCurrent_update(uni.data))]

\* The coordinator update reaches the discharge-current sensor.
DischargeSensorUpdates ==
    /\ uni.discharge = None
    /\ uni' = [uni EXCEPT !.discharge = Some(UniBatteryDischargeCurrent_update(uni.data))]

UniNext ==
    \/ ChargingSensorUpdates /\ UNCHANGED <<prior_vars, ascii_call, build_call, coord, auth, block_call, feed>>
    \/ DischargeSensorUpdates /\ UNCHANGED <<prior_vars, ascii_call, build_call, coord, auth, block_call, feed>>

SpecUni == UniInit /\ [][UniNext]_vars

(***************************************************************************)
(* Properties of the codec.                                                *)
(***************************************************************************)
\* The register map's single-register fields, by address and by type.
UintFields == {<<171, "device_type">>, <<184, "protocol_number">>,
               <<201, "work_mode">>, <<229, "soc_percent">>}
ScaledFields == {<<202, "mains_voltage_v">>, <<203, "mains_freq_hz">>,
                 <<205, "inv_voltage_v">>, <<206, "inv_current_a">>,
                 <<207, "inv_freq_hz">>, <<210, "out_voltage_v">>,
                 <<211, "out_current_a">>, <<212, "out_freq_hz">>,
                 <<215, "bat_voltage_v">>, <<216, "bat_current_a">>,
                 <<219, "pv_voltage_v">>, <<220, "pv_current_a">>,
                 <<233, "inv_charge_current_a">>, <<234, "pv_charge_current_a">>}
IntFields == {<<204, "mains_power_w">>, <<208, "inv_power_w">>,
              <<209, "inv_charge_power_w">>, <<213, "out_active_power_w">>,
              <<214, "out_apparent_power_va">>, <<217, "bat_power_w">>,
              <<223, "pv_power_w">>, <<224, "pv_charge_power_w">>,
              <<225, "load_percent">>}

\* Value i of the device's registers is what the field at start_reg + i shows.
PlacedAt(t, start_reg, regs, i) ==
    /\ \A e \in UintFields :
          e[1] = start_reg + i => t[e[2]] = Some(regs[i + 1])
    /\ \A e \in ScaledFields :
          e[1] = start_reg + i =>
              t[e[2]] # None /\ t[e[2]][1].n = ToSigned16(regs[i + 1])
    /\ \A e \in IntFields :
          e[1] = start_reg + i => t[e[2]] = Some(ToSigned16(regs[i + 1]))

\* C2: a response built as slave_id | 0x03 | 2n | n big-endian values | CRC
\* (low byte first) is accepted by decode_read_response, decodes to exactly
\* those n values in order, and parse_from_block shows value i at the absolute
\* address start_reg + i.
DecodeRoundTrip ==
    (pc = "received" /\ device.mode = "valid") =>
        /\ decoded = Ok(device.regs)
        /\ telemetry # None
        /\ \A i \in 0..(Len(device.regs) - 1) :
              PlacedAt(telemetry[1], req.start_reg, device.regs, i)

DecodeRoundTripWitness ==
    /\ pc = "received"
    /\ device.mode = "valid"
    /\ req.start_reg = 171
    /\ req.reg_count = 67
    /\ device.regs[1] # device.regs[67]
    /\ decoded.ok
    /\ Len(decoded.val) = 67
    /\ telemetry[1].device_type = Some(device.regs[1])
    /\ telemetry[1].pv_charge_current_a # None
    /\ telemetry[1].pv_charge_current_a[1].n = ToSigned16(device.regs[64])

\* The five checks of the validator, each on its own.
LengthOk(p) == Len(p) >= 5
ChecksumOk(p) ==
    UnpackLE16(SubSeq(p, Len(p) - 1, Len(p))) = crc16_modbus(SubSeq(p, 1, Len(p) - 2))
SlaveOk(p, slave_id) == p[1] = slave_id
FunctionOk(p) == p[2] = 3
CountOk(p, reg_count) == p[3] = Len(p) - 5 /\ p[3] = 2 * reg_count

\* The messages of the error that belongs to the first check a response fails.
FirstFailure(p, slave_id, reg_count) ==
    IF ~LengthOk(p) THEN {"response too short"}
    ELSE IF ~ChecksumOk(p) THEN {"CRC mismatch"}
    ELSE IF ~SlaveOk(p, slave_id) THEN {"unexpected slave id"}
    ELSE IF ~FunctionOk(p) THEN {"unexpected function code in response"}
    ELSE IF ~CountOk(p, reg_count)
    THEN {"byte_count does not match data length",
          "unexpected register count in response"}
    ELSE {}

\* C3: the validator applies its checks in the order length, CRC, slave id,
\* function code, byte count; the error raised belongs to the first check the
\* response fails, and a failed response yields no register values.
ValidationOrder ==
    pc = "received" =>
        LET failure == FirstFailure(wire, req.slave_id, req.reg_count)
        IN  /\ decoded.ok <=> failure = {}
            /\ ~decoded.ok => decoded.msg \in failure
            /\ ~decoded.ok => ("val" \notin DOMAIN decoded /\ telemetry = None)

ValidationOrderWitness ==
    /\ pc = "received"
    /\ device.mode = "crafted"
    /\ ~device.crc_ok
    /\ device.rsid # req.slave_id
    /\ device.func # 3
    /\ device.bc # 2 * req.reg_count
    /\ ~decoded.ok
    /\ decoded.msg = "CRC mismatch"

\* C4: a CRC-valid response from the requested slave whose function code has
\* the high bit set is reported with an error outcome distinct from the one
\* reported for a function code that merely differs from the requested one.
ExceptionSurfacedDistinctly ==
    (/\ pc = "received"
     /\ device.mode = "crafted"
     /\ device.crc_ok
     /\ device.rsid = req.slave_id
     /\ device.func >= 128) =>
        LET generic == _expect_read_response(req.slave_id, 3,
                           append_crc(<<req.slave_id, 4, 2, 0, 0>>), Some(req.reg_count))
        IN  /\ ~decoded.ok
            /\ <<decoded.type, decoded.msg>> # <<generic.type, generic.msg>>

\* C5: replacing any one byte of a valid read response by a different value
\* makes decode_read_response fail with the checksum mismatch, never with
\* another error and never with a successful decode.
SingleByteCorruptionDetected ==
    (pc = "received" /\ device.mode = "corrupt") =>
        (~decoded.ok /\ decoded.msg = "CRC mismatch")

SingleByteCorruptionWitness ==
    /\ pc = "received"
    /\ device.mode = "corrupt"
    /\ device.pos = 1
    /\ device.byte = OtherSlave(req.slave_id)
    /\ req.reg_count = MaxRegs
    /\ ~decoded.ok
    /\ decoded.msg = "CRC mismatch"

(***************************************************************************)
(* Properties of read_snapshot.                                            *)
(***************************************************************************)
\* The electrical fields of a snapshot are those decoded from the response.
ElectricalFieldsDecoded(snap, t) ==
    /\ snap.grid_voltage_v = t.mains_voltage_v
    /\ snap.grid_freq_hz = t.mains_freq_hz
    /\ snap.grid_input_power_w = _fi(t.mains_power_w)
    /\ snap.ac_out_voltage_v = t.out_voltage_v
    /\ snap.ac_out_freq_hz = t.out_freq_hz
    /\ snap.out_active_power_w = _fi(t.out_active_power_w)
    /\ snap.out_apparent_power_va = _fi(t.out_apparent_power_va)
    /\ snap.battery_voltage_v = t.bat_voltage_v
    /\ snap.battery_current_a = t.bat_current_a
    /\ snap.battery_soc_percent = _fi(t.soc_percent)
    /\ snap.pv_voltage_v = t.pv_voltage_v
    /\ snap.pv_current_a = t.pv_current_a
    /\ snap.pv_power_w = _fi(t.pv_power_w)
    /\ snap.inverter_temp_c # None

\* C1: for every well-formed response to the runtime read (correct CRC, the
\* provider's slave id, function 0x03, byte count 134) read_snapshot completes
\* without raising and returns one snapshot whose electrical fields are the
\* values decoded from that response and whose raw bag holds the telemetry.
SnapshotOfWellFormedResponse ==
    (pc = "done" /\ device # None /\ device.mode = "valid") =>
        /\ snapshot.ok
        /\ ElectricalFieldsDecoded(snapshot.val, parse_from_block(RuntimeStart, device.regs))
        /\ snapshot.val.raw.anern_runtime_171_237 = parse_from_block(RuntimeStart, device.regs)

(***************************************************************************)
(* Properties of the checksum functions.                                   *)
(***************************************************************************)
\* C6: the two bytes append_crc(b) appends are the CRC16 (poly 0xA001, init
\* 0xFFFF) of b, low byte then high byte; the validator's recomputation over
\* the first len(b) bytes matches them; and crc16(b) of the ASCII side is the
\* same two bytes in the same order.
ChecksumRoundTrip ==
    crc_out # None =>
        LET n == Len(crc_in)
            a == crc_out.appended
        IN  /\ Len(a) = n + 2
            /\ SubSeq(a, 1, n) = crc_in
            /\ a[n + 1] + 256 * a[n + 2] = crc16_modbus(crc_in)
            /\ crc_in = CheckString => (a[n + 1] = 55 /\ a[n + 2] = 75)
            /\ n >= 3 => (crc_out.validated.ok \/ crc_out.validated.msg # "CRC mismatch")
            /\ crc_out.tty = <<a[n + 1], a[n + 2]>>

ChecksumRoundTripWitness ==
    /\ crc_out # None
    /\ crc_in = <<1, 3, 0>>
    /\ crc_out.appended = <<1, 3, 0, 32, 240>>
    /\ crc_out.validated.ok
    /\ crc_out.tty = <<32, 240>>

(***************************************************************************)
(* Properties of the signed battery current.                               *)
(***************************************************************************)
\* The reading of a key as the resolvers see it: absent, or tenths of an ampere.
ChargeReading == _f(Get(qpigs, "battery_charging_current"))
DischargeReading == _f(Get(qpigs, "battery_discharge_current"))

SignedCurrentRule(r) ==
    LET c == IF ChargeReading = None THEN 0 ELSE ChargeReading[1]
        d == IF DischargeReading = None THEN 0 ELSE DischargeReading[1]
    IN  IF ChargeReading = None /\ DischargeReading = None THEN r = None
        ELSE /\ r # None
             /\ r[1] \in Int
             /\ (c > 0 /\ d = 0) => r[1] = c
             /\ (d > 0 /\ c = 0) => r[1] = -d
             /\ (c # 0 /\ d # 0) => r[1] = c - d

\* C7: the signed battery current is absent when both readings are absent;
\* otherwise, an absent reading counting as 0, it is +charge when charge > 0 and
\* discharge = 0, -discharge when discharge > 0 and charge = 0, and
\* charge - discharge when both are nonzero; it is computed for every pair.
SignedBatteryCurrent ==
    batt # None =>
        /\ SignedCurrentRule(batt.provider[1])
        /\ SignedCurrentRule(batt.coordinator[1])

SignedBatteryCurrentWitness ==
    /\ batt # None
    /\ ChargeReading = Some(20)
    /\ DischargeReading = Some(10)
    /\ batt.provider[1] = Some(10)
    /\ batt.coordinator[1] = Some(10)

\* C8 as stated: charge 0 and discharge 0, both present, give absent.
ZeroCurrentsGiveAbsent ==
    (batt # None /\ ChargeReading = Some(0) /\ DischargeReading = Some(0)) =>
        (batt.provider[1] = None /\ batt.coordinator[1] = None)

\* C8 (amended): when the device reports charge current 0 and discharge
\* current 0, both readings present, the signed battery current is the number
\* 0, not absent.
ZeroCurrentsGiveZero ==
    (batt # None /\ ChargeReading = Some(0) /\ DischargeReading = Some(0)) =>
        (batt.provider[1] = Some(0) /\ batt.coordinator[1] = Some(0))

ZeroCurrentsGiveZeroWitness ==
    /\ batt # None
    /\ Get(qpigs, "battery_charging_current") = Some(Num(0))
    /\ Get(qpigs, "battery_discharge_current") = Some(Text(<<"0", "0", "0">>))
    /\ batt.provider[1] = Some(0)
    /\ batt.coordinator[1] = Some(0)

(***************************************************************************)
(* Properties of the energy accumulators.                                  *)
(***************************************************************************)
\* A step that feeds the sensor a sample while it holds a number.
SensorSampled ==
    /\ sensor'.fed = sensor.fed + 1
    /\ sensor.obj.native_value # None

\* The trapezoid over the time between the stored sample and the new one.
Trapezoid(prev_power, power, ticks) == (prev_power + power) * ticks

\* C9: the first sample after creation or restore adds nothing; every later
\* sample adds exactly (previous_power + current_power) / 2 x the elapsed hours
\* between the two samples; then the stored sample, power and timestamp, is the
\* current one.
TrapezoidOverElapsedTime ==
    [][SensorSampled =>
          /\ sensor'.obj._prev_value # None
          /\ sensor'.obj._prev_value_timestamp = clock'
          /\ sensor'.obj.native_value[1] =
                 IF sensor.obj._prev_value = None
                 THEN sensor.obj.native_value[1]
                 ELSE sensor.obj.native_value[1]
                      + Trapezoid(sensor.obj._prev_value[1],
                                  sensor'.obj._prev_value[1],
                                  clock' - sensor.obj._prev_value_timestamp)]_vars

\* The same of SocCalculatorMixin._accumulate, which takes the exact time.
AccumulateOverElapsedTime ==
    [][soc'.fed = soc.fed + 1 =>
          /\ soc'.obj._has_prev
          /\ soc'.obj._prev_ts = Some(clock')
          /\ soc'.obj._accumulated_energy_wh =
                 IF ~soc.obj._has_prev
                 THEN soc.obj._accumulated_energy_wh
                 ELSE Some(soc.obj._accumulated_energy_wh[1]
                           + Trapezoid(soc.obj._prev_power, soc'.obj._prev_power,
                                       clock' - soc.obj._prev_ts[1]))]_vars

\* C10: when the stored sample and the new sample are both non-negative, an
\* update does not decrease the accumulated value of the energy sensor.
NonNegativeSamplesNeverDecrease ==
    [][(/\ SensorSampled
        /\ sensor.obj._prev_value # None => sensor.obj._prev_value[1] >= 0
        /\ sensor'.obj._prev_value # None
        /\ sensor'.obj._prev_value[1] >= 0)
       => sensor'.obj.native_value[1] >= sensor.obj.native_value[1]]_vars

\* Two samples were fed, the last of 200 W, and the value stands at 150 Wh.
NonNegativeSamplesWitness ==
    /\ sensor # None
    /\ sensor.fed = 2
    /\ sensor.obj._prev_value = Some(200)
    /\ sensor.obj._prev_value_timestamp = clock
    /\ sensor.obj.native_value = Some(150 * EnergyUnitsPerWh)

(***************************************************************************)
(* Properties of the SOC estimator.                                        *)
(***************************************************************************)
\* A step that is one calculate_soc call.
SocUpdated == soc'.fed = soc.fed + 1 /\ soc_call' # None

\* The accumulated energy the trapezoid rule gives for the step's sample.
Integrated ==
    IF ~soc.obj._has_prev THEN soc.obj._accumulated_energy_wh[1]
    ELSE soc.obj._accumulated_energy_wh[1]
         + Trapezoid(soc.obj._prev_power, soc_call'[1].current_power,
                     clock' - soc.obj._prev_ts[1])

\* The recalibration condition on the step's sample.
AtFullCharge ==
    LET c == soc_call'[1]
    IN  \/ c.current_voltage >= c.bulk_v[1]
        \/ /\ c.current_voltage >= c.float_v[1]
           /\ 0 < c.current_power
           /\ c.current_power <= 2 * c.bulk_v[1]

\* C11: on every SOC update with voltage >= bulk, or voltage >= float and
\* 0 < power <= 2 x bulk, the accumulated energy after the update is the
\* capacity, whatever was accumulated before; otherwise it is the trapezoidally
\* integrated value clamped to [0, capacity].
RecalibrationSnapsToCapacity ==
    [][(SocUpdated /\ soc_call'[1].capacity_wh # None) =>
          LET cap == soc_call'[1].capacity_wh[1] * EnergyUnitsPerWh
          IN  soc'.obj._accumulated_energy_wh =
                  IF AtFullCharge THEN Some(cap)
                  ELSE IF Integrated < 0 THEN Some(0)
                  ELSE IF Integrated > cap THEN Some(cap)
                  ELSE Some(Integrated)]_vars

\* Between float and bulk with 10 W, the second update has made 100 Wh of what
\* was at most the 50 Wh of the reset plus half a second of power.
RecalibrationWitness ==
    /\ soc_call # None
    /\ soc.fed = 2
    /\ soc_call[1].capacity_wh = Some(100)
    /\ soc_call[1].bulk_v = Some(56)
    /\ soc_call[1].float_v = Some(54)
    /\ soc_call[1].current_voltage = 55
    /\ soc_call[1].current_power = 10
    /\ soc.obj._accumulated_energy_wh = Some(100 * EnergyUnitsPerWh)

FailedUpdateKeepsEstimator ==
    [][(SocUpdated /\ ~soc_call'[1].result.ok) => soc'.obj = soc.obj]_vars

(***************************************************************************)
(* Properties of BatteryStateOfChargeSensor.                               *)
(***************************************************************************)
\* What an SOC update reads as capacity and as bulk / float threshold.
CapacityHeld(obj) == obj.battery_capacity_wh
ThresholdHeld(obj) == get_bulk_charging_voltage(obj)

\* A step in which the event of entity e reaches the sensor.
EventOf(e) == soc_sensor # None /\ hass'.event = Some(e) /\ hass' # hass

\* C13: in every interleaving of the two entities' events the value held as
\* capacity is the positive value the capacity entity reported last and the
\* value held as threshold the positive value the voltage entity reported last;
\* an event of one entity does not change the value held for the other.
EntityValuesKeptApart ==
    [][/\ EventOf(capacity_entity) =>
              /\ CapacityHeld(soc_sensor'.obj)
                     = SubscribedValue(hass'.states[capacity_entity])
              /\ ThresholdHeld(soc_sensor'.obj) = ThresholdHeld(soc_sensor.obj)
       /\ EventOf(full_charge_entity) =>
              /\ ThresholdHeld(soc_sensor'.obj)
                     = SubscribedValue(hass'.states[full_charge_entity])
              /\ CapacityHeld(soc_sensor'.obj) = CapacityHeld(soc_sensor.obj)]_vars

\* C14: after a restart with a persisted SOC p the estimator's accumulated
\* energy is capacity x p / 100 once the capacity is known; it is not 0.
AccumulatedEnergyRestored ==
    (/\ soc_sensor # None
     /\ hass.stored # None
     /\ CapacityHeld(soc_sensor.obj) # None) =>
        /\ "_accumulated_energy_wh" \in DOMAIN soc_sensor.obj
        /\ soc_sensor.obj["_accumulated_energy_wh"]
               = Some((CapacityHeld(soc_sensor.obj)[1] * hass.stored[1]
                       * EnergyUnitsPerWh) \div 10000)

(***************************************************************************)
(* Properties of the poll cycle.                                           *)
(***************************************************************************)
\* The batch the coordinator publishes: what the update returned, if it did.
Published ==
    IF poll.outcome # None /\ poll.outcome[1].ok THEN poll.outcome[1].val ELSE None

\* C16: a failure of one device's read does not abort the others; the batch
\* published for the cycle has an entry for every device whose own read
\* succeeded.
SiblingReadsPublished ==
    (poll # None /\ poll.outcome # None) =>
        \A d \in DOMAIN poll.fetches :
            (poll.fetches[d] # None /\ poll.fetches[d][1].ok) =>
                /\ Published # None
                /\ d \in DOMAIN Published[1]
                /\ Published[1][d] = poll.fetches[d][1].val[2]

\* The cycle of p ended on the overall timeout.
TimedOut(p) ==
    p # None /\ p.outcome = Some(Raise("TimeoutError", "async_timeout.timeout", None))

\* C22: a poll cycle that does not finish within the overall timeout ends
\* with a timeout failure raised to the scheduler and publishes no data; no
\* fetch is running afterwards and nothing further happens in the cycle: no
\* device request, no retry.
TimedOutCycleIsOver ==
    [][/\ TimedOut(poll') =>
              /\ ~poll'.outcome[1].ok
              /\ \A d \in DOMAIN poll'.fetches : poll'.fetches[d] # None
              /\ \A d \in DOMAIN poll.fetches :
                     poll.fetches[d] # None => poll'.fetches[d] = poll.fetches[d]
       /\ TimedOut(poll) => poll' = poll]_vars

\* The cycle timed out after one device's read had returned and while
\* another was running.
TimedOutCycleWitness ==
    /\ TimedOut(poll)
    /\ \E d \in DOMAIN poll.fetches : poll.fetches[d][1].ok
    /\ \E d \in DOMAIN poll.fetches :
           poll.fetches[d] = Some(Raise("CancelledError", "", None))

(***************************************************************************)
(* Properties of QpigsProvider.                                            *)
(***************************************************************************)
\* read_snapshot has returned a snapshot.
SnapshotReturned == qp # None /\ qp.result # None /\ qp.result[1].ok

\* The exchange of a command was performed and failed.
ExchangeFailed(cmd) ==
    \E i \in 1..Len(qp.exchanges) :
        qp.exchanges[i].cmd = cmd /\ ~qp.exchanges[i].outcome.ok

\* C17 (as stated): read_snapshot returns a snapshot only if every exchange
\* it performed, QPIGS2 included, succeeded; if one of them fails the call
\* raises.
SnapshotOnlyAfterAllExchanges ==
    /\ SnapshotReturned =>
          \A i \in 1..Len(qp.exchanges) : qp.exchanges[i].outcome.ok
    /\ (qp # None /\ \E i \in 1..Len(qp.exchanges) : ~qp.exchanges[i].outcome.ok)
          => qp.result # None /\ ~qp.result[1].ok

\* C17 (amended): read_snapshot returns a snapshot only if each of the
\* exchanges QPIGS, QPIRI, QMOD, QMN and QVFW succeeded; when one of them
\* fails the call raises that exchange's exception and performs no further
\* exchange.  A failed QPIGS2 exchange does not fail the call: the snapshot
\* is returned with an empty QPIGS2 reply.
SnapshotOnlyAfterRequiredExchanges ==
    qp # None =>
        /\ SnapshotReturned =>
              /\ Len(qp.exchanges) = Len(QpigsCommands)
              /\ \A i \in 1..Len(qp.exchanges) :
                    /\ qp.exchanges[i].cmd = QpigsCommands[i]
                    /\ qp.exchanges[i].cmd # "QPIGS2" => qp.exchanges[i].outcome.ok
              /\ qp.result[1].val.raw.qpigs2 =
                    IF qp.exchanges[Len(QpigsCommands)].outcome.ok
                    THEN qp.exchanges[Len(QpigsCommands)].outcome.val
                    ELSE <<>>
        /\ \A i \in 1..Len(qp.exchanges) :
              (~qp.exchanges[i].outcome.ok /\ qp.exchanges[i].cmd # "QPIGS2")
                  => /\ qp.result = Some(qp.exchanges[i].outcome)
                     /\ i = Len(qp.exchanges)
        /\ Len(qp.exchanges) = Len(QpigsCommands) => SnapshotReturned

\* A snapshot was returned although the QPIGS2 exchange failed.
SnapshotAfterFailedQpigs2Witness ==
    SnapshotReturned /\ ExchangeFailed("QPIGS2")

(***************************************************************************)
(* Properties of probe.                                                    *)
(***************************************************************************)
\* The exchange of the probe was a round trip with a valid response: the
\* frame was built, the transport returned, and the response passed the
\* provider's validation and decoding.
ProbeRoundTripValid ==
    /\ probed.frame # None /\ probed.frame[1].ok
    /\ probed.tx # None /\ probed.tx[1].ok
    /\ probed.provider.name = "aneji_modbus" =>
          decode_read_response(probed.provider.sid[1], RuntimeStart, RuntimeCount,
                               probed.tx[1].val).ok

\* C18: for both providers probe returns False, and does not raise, whenever
\* its exchange failed, and returns True only after a round trip whose
\* response was valid.
ProbeTrueOnlyAfterValidRoundTrip ==
    (probed # None /\ probed.result # None) =>
        /\ probed.result[1].ok
        /\ probed.result[1].val = TRUE => ProbeRoundTripValid
        /\ ~ProbeRoundTripValid => probed.result[1].val = FALSE

\* The same for QpigsProvider alone.
QpigsProbeTrueOnlyAfterValidRoundTrip ==
    (probed # None /\ probed.result # None /\ probed.provider.name = "qpigs") =>
        /\ probed.result[1].ok
        /\ probed.result[1].val = TRUE => ProbeRoundTripValid
        /\ ~ProbeRoundTripValid => probed.result[1].val = FALSE

(***************************************************************************)
(* Properties of the provider registry.                                    *)
(***************************************************************************)
\* C19: create_provider with a kind that is no key of the registry raises
\* the error that names the unknown provider kind and calls no constructor;
\* with a registered kind it calls the constructor registered for that kind,
\* and no other, and its outcome is that constructor's.
UnknownKindRejected ==
    (created # None /\ created.call # None) =>
        LET call == created.call[1]
        IN  /\ created.kind \notin {"direct", "anern_modbus"} =>
                  /\ call.constructed = <<>>
                  /\ call.result = Raise("ValueError", "Unknown provider kind: ",
                                         Some(created.kind))
            /\ created.kind = "direct" =>
                  /\ call.constructed = <<"QpigsProvider">>
                  /\ call.result = QpigsProvider_init(created.kwargs)
                  /\ call.result.ok => call.result.val.class = "QpigsProvider"
            /\ created.kind = "anern_modbus" =>
                  /\ call.constructed = <<"AnejiModbusProvider">>
                  /\ call.result = AnejiModbusProvider_init(created.kwargs)
                  /\ call.result.ok => call.result.val.class = "AnejiModbusProvider"

\* An unknown kind was rejected, although the keywords would have built a
\* QpigsProvider.
UnknownKindRejectedWitness ==
    /\ created # None /\ created.call # None
    /\ created.kind = "qpigs"
    /\ KeywordNames(created.kwargs) = {"transport_send_hex_callable"}
    /\ ~created.call[1].result.ok

(***************************************************************************)
(* Properties of the PV fields.                                            *)
(***************************************************************************)
\* The PV power rule on a snapshot built from the QPIGS reply q: the
\* directly reported power when it is present; otherwise voltage times
\* current of the snapshot's PV channel when both are present; otherwise
\* absent.
PvPowerRule(snap, q) ==
    LET direct == _f(Get(q, "pv_charging_power"))
    IN  IF direct # None THEN snap.pv_power_w = direct
        ELSE IF snap.pv_voltage_v # None /\ snap.pv_current_a # None
        THEN snap.pv_power_w = _mul(snap.pv_voltage_v, snap.pv_current_a)
        ELSE snap.pv_power_w = None

\* No PV power of 0 is made of a voltage or current that is absent or is no
\* number.
NoZeroFromUnparseable(snap, raw) ==
    (/\ _f(Get(raw.qpigs, "pv_charging_power")) = None
     /\ \/ _f(Get(raw.qpigs2, "pv_voltage")) = None
        \/ _f(Get(raw.qpigs2, "pv_current")) = None
     /\ \/ _f(Get(raw.qpigs, "pv_input_voltage")) = None
        \/ _f(Get(raw.qpigs, "pv_input_current")) = None)
        => snap.pv_power_w # Some(0)

\* C20: in the snapshot of QpigsProvider.read_snapshot and in that of
\* _snapshot_from_direct the PV power is the directly reported power when
\* present, else voltage times current of the same channel when both are
\* present, else absent; an absent or unparseable voltage or current is
\* never turned into 0.
PvPowerPreferredThenProduct ==
    pv # None =>
        /\ pv.provider # None =>
              /\ PvPowerRule(pv.provider[1], pv.raw.qpigs)
              /\ NoZeroFromUnparseable(pv.provider[1], pv.raw)
        /\ pv.direct # None =>
              /\ PvPowerRule(pv.direct[1], pv.raw.qpigs)
              /\ NoZeroFromUnparseable(pv.direct[1], pv.raw)

\* The last part of C20 for _snapshot_from_direct alone.
DirectNoZeroFromUnparseable ==
    (pv # None /\ pv.direct # None) => NoZeroFromUnparseable(pv.direct[1], pv.raw)

\* The last part of C20 for QpigsProvider.read_snapshot alone.
ProviderNoZeroFromUnparseable ==
    (pv # None /\ pv.provider # None) => NoZeroFromUnparseable(pv.provider[1], pv.raw)

(***************************************************************************)
(* Properties of decode_qpigs.                                             *)
(***************************************************************************)
\* The response has been decoded.
Decoded == ascii_call # None /\ ascii_call.result # None

\* The tokens are mapped onto the fields by position.
MappedByPosition(fields) ==
    /\ DOMAIN fields =
          {QpigsFields[i] : i \in 1..Min(Len(ascii_call.tokens), Len(QpigsFields))}
    /\ \A i \in 1..Min(Len(ascii_call.tokens), Len(QpigsFields)) :
          LET token == ascii_call.tokens[i]
              value == fields[QpigsFields[i]]
          IN  IF ParseFloat(token).ok THEN value.kind \in {"int", "float"}
              ELSE value = Text(token)

\* The response decoded is that of the example.
IsExample == ascii_call.tokens = ExampleTokens

InputError(done) ==
    done.result # None /\ ~done.result[1].ok /\ done.result[1].type = "ValueError"

\* The call produced a frame of n bytes that begins with the slave id and the
\* function code.
FrameBuilt(done, slave_id, func, n) ==
    /\ done.result # None /\ done.result[1].ok
    /\ Len(done.result[1].val) = n
    /\ done.result[1].val[1] = slave_id
    /\ done.result[1].val[2] = func

\* C23: the builders raise an input error and produce no frame for a slave id
\* outside 1..247, a start register outside 0..65535, a read count outside
\* 1..125 and a value list that is empty or longer than 123, and produce a
\* frame for every input within these ranges; read_snapshot of a provider
\* whose slave id is outside 1..247 fails before the transport is invoked.
BuildersValidateInputs ==
    (build_call # None /\ build_call.done # None) =>
        LET call == build_call.call
            done == build_call.done[1]
            slave_ok == call.slave_id \in 1..247
        IN  /\ call.op = "build_read_holding" =>
                  IF slave_ok /\ call.start_reg \in 0..65535 /\ call.reg_count \in 1..125
                  THEN FrameBuilt(done, call.slave_id, 3, 8)
                  ELSE InputError(done)
            /\ call.op = "build_write_multiple" =>
                  IF slave_ok /\ call.start_reg \in 0..65535
                     /\ Len(call.values) \in 1..123
                  THEN FrameBuilt(done, call.slave_id, 16, 9 + 2 * Len(call.values))
                  ELSE InputError(done)
            /\ call.op = "read_snapshot" =>
                  IF slave_ok THEN Len(done.sent) = 1 /\ done.result = None
                  ELSE done.sent = <<>> /\ InputError(done)

\* read_snapshot of a provider with slave id 248 has failed.
BadSlaveIdWitness ==
    /\ build_call # None /\ build_call.done # None
    /\ build_call.call = [op |-> "read_snapshot", slave_id |-> 248]

\* A value list of 124 registers was refused.
LongWriteWitness ==
    /\ build_call # None /\ build_call.done # None
    /\ build_call.call.op = "build_write_multiple"
    /\ build_call.call.slave_id = 1 /\ build_call.call.start_reg = 0
    /\ Len(build_call.call.values) = 124
    /\ ~build_call.done[1].result[1].ok

(***************************************************************************)
(* Properties of DirectCoordinator.                                        *)
(***************************************************************************)
\* C24: for each registered provider kind the construction of the
\* coordinator yields a provider built with the injected send function, and
\* a fetch of a poll cycle invokes the provider's read_snapshot, an operation
\* the provider implements; neither fails because of how the coordinator
\* constructs or calls the provider.
CoordinatorUsesProvider ==
    coord # None =>
        /\ (coord.constructed # None
            /\ ProviderKindOf(coord.options) \in DOMAIN REGISTRY) =>
               /\ coord.constructed[1].ok
               /\ coord.provider # None
               /\ coord.provider[1]._tx = coord.send_hex_callable
        /\ coord.fetched # None =>
               /\ coord.fetched[1].ok
               /\ coord.fetched[1].val = "read_snapshot"

\* The first part of C24 alone: the construction.
CoordinatorConstructsProvider ==
    (coord # None /\ coord.constructed # None
     /\ ProviderKindOf(coord.options) \in DOMAIN REGISTRY) =>
        coord.constructed[1].ok

\* The second part of C24 alone: the operation a fetch invokes.
FetchInvokesReadSnapshot ==
    (coord # None /\ coord.fetched # None) =>
        coord.fetched[1].ok /\ coord.fetched[1].val = "read_snapshot"

(***************************************************************************)
(* Properties of the credentials of DirectCoordinator.                     *)
(***************************************************************************)
\* In a cycle _check_auth comes before the device list and before every
\* fetch.
CheckAuthComesFirst ==
    auth # None =>
        \A i \in 1..Len(auth.log) :
            auth.log[i] \in {"get_devices", "fetch"} =>
                \E j \in 1..(i - 1) : auth.log[j] = "_check_auth"

\* A cycle that finds the stored token expired authenticates again.
ExpiredTokenIsRenewed ==
    (auth # None /\ auth.pc # "idle" /\ auth.expired) =>
        \E i \in 1..Len(auth.log) : auth.log[i] = "_create_auth"

\* A step that leaves fetches running leaves the credentials alone.
RunningFetchesKeepAuth ==
    (auth # None /\ auth.running > 0 /\ auth'.running > 0) => auth'.auth = auth.auth

\* C25: in every poll cycle _check_auth comes before the device list and
\* before every device request; a cycle that finds the stored token expired
\* (now >= issue time + expire) authenticates again, however long ago the
\* expiry was; and the credentials do not change while device polls are
\* running.
CredentialsRefreshedBeforeFanOut ==
    /\ [](CheckAuthComesFirst /\ ExpiredTokenIsRenewed)
    /\ [][RunningFetchesKeepAuth]_vars

\* The three parts of C25, each alone.
CheckAuthAlwaysFirst == []CheckAuthComesFirst
ExpiredTokenAlwaysRenewed == []ExpiredTokenIsRenewed
AuthKeptWhileFetchesRun == [][RunningFetchesKeepAuth]_vars

(***************************************************************************)
(* Properties of RuntimeTelemetry.parse_from_block.                        *)
(***************************************************************************)
\* The block of a call covers the address.
Covered(call, addr) ==
    addr >= call.start_reg /\ addr < call.start_reg + Len(call.regs)

\* The register of the block at an absolute address.
RegAt(call, addr) == call.regs[addr - call.start_reg + 1]

\* The bytes of the registers addr .. addr + words - 1, high byte first.
RawBytes(call, addr, words) ==
    [k \in 1..(2 * words) |->
        LET reg == RegAt(call, addr + (k - 1) \div 2)
        IN  IF k % 2 = 1 THEN reg \div 256 ELSE reg % 256]

\* A text without its trailing NUL bytes and whitespace.
RightTrimmed(bytes) == RStrip(bytes, {0} \cup Whitespace)

Parsed == block_call # None /\ block_call.result # None

\* C26: a packed-ASCII field the block covers decodes to its 24 bytes, high
\* byte first, without the trailing NUL bytes and whitespace and with every
\* other character kept.
AsciiFieldRightTrimmed ==
    Parsed =>
        \A f \in DOMAIN AsciiFields :
            (\A i \in 0..(AsciiWords - 1) : Covered(block_call, AsciiFields[f] + i)) =>
                block_call.result[1][f] =
                    Some(RightTrimmed(RawBytes(block_call, AsciiFields[f], AsciiWords)))

\* The same for the texts that end in neither a NUL, a backslash, 'x' or '0'
\* and begin with no whitespace, padded with spaces.
SpacePaddedFieldRightTrimmed ==
    Parsed =>
        \A f \in DOMAIN AsciiFields :
            LET raw == RawBytes(block_call, AsciiFields[f], AsciiWords)
                trimmed == RStrip(raw, Whitespace)
            IN  (/\ \A i \in 0..(AsciiWords - 1) : Covered(block_call, AsciiFields[f] + i)
                 /\ trimmed # <<>>
                 /\ trimmed[Len(trimmed)] \notin {0} \cup RStripChars
                 /\ trimmed[1] \notin Whitespace) =>
                    block_call.result[1][f] = Some(RightTrimmed(raw))

\* The scaled fields in hundredths (the frequencies); the others are in
\* tenths.
FrequencyAddresses == {203, 207, 212}
PowerFlowAddress == 231

\* seq occurs in bytes as a run of consecutive bytes.
IsRunOf(seq, bytes) ==
    \E i \in 1..(Len(bytes) + 1) :
        /\ i + Len(seq) - 1 <= Len(bytes)
        /\ \A k \in 1..Len(seq) : seq[k] = bytes[i + k - 1]

\* C27: a field whose address (for a packed-ASCII field, any of its
\* addresses) the block does not cover is None; a field whose address is
\* covered holds the typed value of the register at that absolute address,
\* also when the register is 0 (a packed-ASCII field: characters of the
\* registers at its addresses).
UncoveredFieldsAreAbsent ==
    Parsed =>
        LET call == block_call
            t == call.result[1]
        IN  /\ \A e \in UintFields :
                  t[e[2]] = IF Covered(call, e[1]) THEN Some(RegAt(call, e[1])) ELSE None
            /\ \A e \in ScaledFields :
                  t[e[2]] = IF Covered(call, e[1])
                            THEN Some(Scaled(ToSigned16(RegAt(call, e[1])),
                                             IF e[1] \in FrequencyAddresses
                                             THEN 100 ELSE 10))
                            ELSE None
            /\ \A e \in IntFields :
                  t[e[2]] = IF Covered(call, e[1])
                            THEN Some(ToSigned16(RegAt(call, e[1]))) ELSE None
            /\ t.power_flow = IF Covered(call, PowerFlowAddress)
                              THEN Some(PowerFlow_from_raw(RegAt(call, PowerFlowAddress)))
                              ELSE None
            /\ \A f \in DOMAIN AsciiFields :
                  IF \A i \in 0..(AsciiWords - 1) : Covered(call, AsciiFields[f] + i)
                  THEN /\ t[f] # None
                       /\ IsRunOf(t[f][1], RawBytes(call, AsciiFields[f], AsciiWords))
                  ELSE t[f] = None

\* A block that covers the state of charge, which reads 0, and does not
\* cover the device type and all of the serial number.
PartialBlockWitness ==
    /\ Parsed
    /\ ~Covered(block_call, 171)
    /\ Covered(block_call, 229)
    /\ RegAt(block_call, 229) = 0
    /\ block_call.result[1].soc_percent = Some(0)
    /\ block_call.result[1].device_type = None
    /\ Covered(block_call, 197) /\ ~Covered(block_call, 186)
    /\ block_call.result[1].serial_number = None

(***************************************************************************)
(* Properties of the restore of MyEnergySensor.                            *)
(***************************************************************************)
\* The value the recorder kept: 0 when it kept nothing.
PersistedValue(data) == IF data = None THEN Some(0) ELSE data[1]["native_value"]

\* Up to the restore the sensor is unavailable and no sample has been fed.
UnavailableUntilRestored ==
    (sensor # None /\ ~sensor.obj._is_restored_value) =>
        /\ \A device_online \in BOOLEAN, hub_online \in BOOLEAN :
               ~available(sensor.obj, device_online, hub_online)
        /\ sensor.fed = 0
        /\ sensor.obj.native_value = None

\* After the restore and after the first sample the value is the persisted one.
RestoredToPersistedValue ==
    (sensor # None /\ sensor.obj._is_restored_value /\ sensor.fed <= 1) =>
        /\ sensor.stored # None
        /\ sensor.obj.native_value = PersistedValue(sensor.stored[1])

\* C28: an energy sensor is unavailable until its restore has completed and
\* integrates no sample before it; once restored its value is the persisted
\* value (0 when nothing was persisted) and a number in every state, and the
\* first sample after the restore adds nothing.
RestoredValueIsANumber ==
    /\ UnavailableUntilRestored
    /\ RestoredToPersistedValue
    /\ (sensor # None /\ sensor.obj._is_restored_value) =>
           sensor.obj.native_value # None

\* The same where the recorder kept nothing or kept a number.
RestoredNumberIsKept ==
    (sensor # None /\ sensor.stored # None
     /\ PersistedValue(sensor.stored[1]) # None) =>
        RestoredValueIsANumber

\* Every sample fed to a sensor restored to no value, but the first, raises.
RestoredNoneRaises ==
    (sensor # None /\ sensor.stored # None
     /\ PersistedValue(sensor.stored[1]) = None /\ sensor.fed >= 2) =>
        ~sensor.result[1].ok

(***************************************************************************)
(* Properties of the battery power of the SOC sensor.                      *)
(***************************************************************************)
PowerComputed == feed # None /\ feed.power # None /\ feed.power[1].ok

\* C29: the signed battery power the SOC sensor hands to its estimator is
\* the voltage times the signed battery current that _battery_current
\* returns for the same two readings, also when both readings are nonzero.
SocPowerIsVoltageTimesSignedCurrent ==
    (PowerComputed /\ feed.charge_i # None /\ feed.discharge_i # None) =>
        /\ feed.signed[1] # None
        /\ feed.power[1].val = feed.voltage[1] * feed.signed[1][1]

\* The same where at most one of the two readings is nonzero.
SocPowerOfConsistentReadings ==
    (PowerComputed /\ feed.charge_i # None /\ feed.discharge_i # None
     /\ (feed.charge_i[1] = 0 \/ feed.discharge_i[1] = 0)) =>
        /\ feed.signed[1] # None
        /\ feed.power[1].val = feed.voltage[1] * feed.signed[1][1]

(***************************************************************************)
(* Properties of the unsigned battery currents.                            *)
(***************************************************************************)
BothPublished == uni # None /\ uni.charging # None /\ uni.discharge # None

\* C30: for the signed battery current s of the snapshot the published
\* charging current c and discharge current d are not negative, at most one
\* of them is nonzero and c - d = s; both are absent exactly when s is.
UnsignedCurrentsSplitTheSigned ==
    BothPublished =>
        LET s == SnapshotBatteryCurrent(uni.data)
            c == uni.charging[1]
            d == uni.discharge[1]
        IN  IF s = None THEN c = None /\ d = None
            ELSE /\ c # None /\ d # None
                 /\ c[1] >= 0 /\ d[1] >= 0
                 /\ c[1] = 0 \/ d[1] = 0
                 /\ c[1] - d[1] = s[1]

\* A battery that discharges: the discharge current is the positive one.
DischargeSplitWitness ==
    /\ BothPublished
    /\ SnapshotBatteryCurrent(uni.data) = Some(-MaxCurrentTenths)
    /\ uni.charging[1] = Some(0)
    /\ uni.discharge[1] = Some(MaxCurrentTenths)

====
